---- MODULE Spec2Model ----
(***************************************************************************)
(* Model of the modhost-bridge daemon (mebaxyz/marlise,                    *)
(* audio-engine/modhost-bridge): the shared HealthState, and the plugin    *)
(* registry (PluginManager) with its engine command client and event bus.  *)
(*                                                                         *)
(* Specifications:                                                         *)
(*   SpecHealth     - HealthState updated by one caller at a time          *)
(*   SpecHealthConc - HealthState updated by two threads, read/write steps *)
(*   Spec           - PluginManager: load / unload / clear_all / shutdown  *)
(***************************************************************************)
EXTENDS Integers, Sequences, FiniteSets, TLC

VARIABLES
    health_state,   \* HealthState: status, command_connected, feedback_connected, last_health_log
    health_log,     \* the spdlog::info lines written by update_overall_status
    now,            \* steady_clock, in seconds
    updates,        \* number of update_*_connection calls begun (history)
    scn,            \* position reached in the health-transition scenario (history), -1 = left it
    pc,             \* SpecHealthConc: position of each thread inside update_*_connection
    loc,            \* SpecHealthConc: locals of each thread (new_status)
    initialized_,   \* PluginManager::initialized_
    available_plugins_, \* PluginManager::available_plugins_ (the URIs of the catalog)
    instances_,     \* PluginManager::instances_ : instance_id -> PluginInstance
    next_instance,  \* static counter of get_next_numeric_instance
    bus,            \* events handed to pub_socket_->send, in order
    sent,           \* commands written to the engine command port, in order (history)
    recorded,       \* host_instance recorded by each successful load, in order (history)
    last,           \* the last request and its response (history)
    scanner_calls,  \* calls made on plugin_scanner_ by the registry operations, in order (history)
    running_,       \* FeedbackReader::running_
    tcp_socket_,    \* FeedbackReader::tcp_socket_ : -1 or the descriptor of the feedback socket
    rpc,            \* position of the reader thread in FeedbackReader::reader_loop
    current_delay,  \* reader_loop: current_delay, in milliseconds
    line_buffer,    \* reader_loop: line_buffer, a sequence of characters
    slept,          \* delays slept since the start or the last successful connect (history)
    connects,       \* number of successful connects (history)
    received,       \* complete non-empty records taken from the stream, each with what
                    \* its send did (history)
    crashed,        \* the process was ended by a signal
    message_in,     \* SpecParser: the feedback event the engine reports
    wire_line,      \* SpecParser: the record the engine writes for it
    message_out,    \* SpecParser: what parse_feedback_line returns for the record
    shutdown_requested, \* main.cpp: shutdown_requested, set by the signal handler
    main_pc,        \* position of the main thread in main / wait_for_modhost
    exit_code,      \* the value main returned, -1 while it runs
    started,        \* the services started by main, in order (history)
    cs_running_,    \* CommandService::running_
    cs_pc,          \* position of the thread of CommandService::service_loop
    hm_running_,    \* HealthMonitor::running_
    hm_pc,          \* position of the thread of HealthMonitor::monitor_loop
    fs,             \* the subdirectories of the monitored LV2 directory, each with the
                    \* last write time of its manifest.ttl
    bundle_states_, \* PluginBundleMonitor::bundle_states_ : bundle path -> last_modified
    is_monitoring_, \* PluginBundleMonitor::is_monitoring_
    reader_socket,  \* what FeedbackReader::pub_socket_ was bound to: "unbound" before
                    \* the reader is constructed, "null" when get_pub_socket() returned
                    \* a null pointer, "socket" when it returned the publish socket
    rep,            \* SpecReply: the two REP sockets (rep_socket_, health_socket_): whether
                    \* a reply is owed, the messages received and sent in order, and the
                    \* sends that threw since the last request (history)
    wire,           \* SpecStream: the bytes the engine has written on the feedback
                    \* connection that the reader has not read yet
    mutex_,         \* PluginManager::mutex_ : the thread that holds it, or "free"
    in_call         \* SpecLock: position of each thread inside a call on the registry or
                    \* on the publish socket

vars == <<health_state, health_log, now, updates, scn, pc, loc, initialized_,
          available_plugins_, instances_, next_instance, bus, sent, recorded, last,
          scanner_calls, running_, tcp_socket_, rpc, current_delay, line_buffer, slept,
          connects, received, crashed, message_in, wire_line, message_out,
          shutdown_requested, main_pc, exit_code, started, cs_running_, cs_pc,
          hm_running_, hm_pc, fs, bundle_states_, is_monitoring_, reader_socket,
          rep, wire, mutex_, in_call>>

bundleVars == <<fs, bundle_states_, is_monitoring_>>
lockVars == <<mutex_, in_call>>
sharedCore == <<bundleVars, lockVars, reader_socket, wire>>
sharedVars == <<sharedCore, rep>>

mainVars == <<shutdown_requested, main_pc, exit_code, started>>
serviceVars == <<cs_running_, cs_pc, hm_running_, hm_pc>>
lifeVars == <<mainVars, serviceVars>>

parserVars == <<message_in, wire_line, message_out>>

readerVars == <<running_, tcp_socket_, rpc, current_delay, line_buffer, slept, connects,
                received, crashed>>

healthVars == <<health_state, health_log, now, updates, scn>>
concVars == <<pc, loc>>
registryVars == <<initialized_, available_plugins_, instances_, next_instance,
                  bus, sent, recorded, last, scanner_calls, readerVars, parserVars, lifeVars,
                  sharedVars>>

-----------------------------------------------------------------------------
(* Bounds *)

MaxUpdates == 6         \* update_*_connection calls in SpecHealth
MaxTime == 45           \* last clock value reached by Tick
TickSeconds == 15       \* clock advance of one Tick
MaxConcUpdates == 4     \* update_*_connection calls in SpecHealthConc

(* Program constants *)

HeartbeatSeconds == 30

-----------------------------------------------------------------------------
(* HealthState (utils/types.h, utils/types.cpp) *)

HealthStatus == {"Starting", "Healthy", "Degraded", "Unhealthy"}

\* HealthState::HealthState(): the field initialisers of the struct
HealthStateInit(t) ==
    [status |-> "Starting", command_connected |-> FALSE,
     feedback_connected |-> FALSE, last_health_log |-> t]

\* a derivation that takes either connection as enough for Degraded
NewStatus_EitherUp(command_connected, feedback_connected) ==
    IF command_connected /\ feedback_connected THEN "Healthy"
    ELSE IF command_connected \/ feedback_connected THEN "Degraded"
    ELSE "Unhealthy"

\* the if / else-if chain computing new_status
NewStatus(command_connected, feedback_connected) ==
    IF command_connected /\ feedback_connected THEN "Healthy"
    ELSE IF command_connected THEN "Degraded"
    ELSE "Unhealthy"

ChangedLine(from, to) == [kind |-> "changed", from |-> from, to |-> to]
HeartbeatLine(st) == [kind |-> "heartbeat", from |-> st, to |-> st]

\* an update_overall_status that does not log the change that leaves Starting
UpdateOverallStatus_SilentStart(h, log, t) ==
    LET new_status == NewStatus(h.command_connected, h.feedback_connected) IN
    IF new_status # h.status
    THEN <<[h EXCEPT !.status = new_status, !.last_health_log = t],
           IF h.status = "Starting" THEN log
           ELSE Append(log, ChangedLine(h.status, new_status))>>
    ELSE IF t - h.last_health_log >= HeartbeatSeconds
         THEN <<[h EXCEPT !.last_health_log = t], Append(log, HeartbeatLine(h.status))>>
         ELSE <<h, log>>

\* update_overall_status: the pair <<HealthState, log>> it leaves at time t
UpdateOverallStatus(h, log, t) ==
    LET new_status == NewStatus(h.command_connected, h.feedback_connected) IN
    IF new_status # h.status
    THEN <<[h EXCEPT !.status = new_status, !.last_health_log = t],
           Append(log, ChangedLine(h.status, new_status))>>
    ELSE IF t - h.last_health_log >= HeartbeatSeconds
         THEN <<[h EXCEPT !.last_health_log = t], Append(log, HeartbeatLine(h.status))>>
         ELSE <<h, log>>

UpdateCommandConnection(h, log, t, connected) ==
    UpdateOverallStatus([h EXCEPT !.command_connected = connected], log, t)

UpdateFeedbackConnection(h, log, t, connected) ==
    UpdateOverallStatus([h EXCEPT !.feedback_connected = connected], log, t)

-----------------------------------------------------------------------------
(* The health-transition scenario: both up (in either order), feedback     *)
(* down, command down, command up, feedback up.                            *)

ScenarioTail == << <<"feedback", FALSE>>, <<"command", FALSE>>,
                   <<"command", TRUE>>, <<"feedback", TRUE>> >>

\* the scenario position after the call `op` made at position k with flags h
ScenarioStep(k, h, op) ==
    IF k = 0 /\ op[2] THEN 1
    ELSE IF k = 1 /\ op[2] /\
            ((op[1] = "command" /\ h.feedback_connected /\ ~h.command_connected) \/
             (op[1] = "feedback" /\ h.command_connected /\ ~h.feedback_connected)) THEN 2
    ELSE IF k >= 2 /\ k < 6 /\ op = ScenarioTail[k - 1] THEN k + 1
    ELSE -1

-----------------------------------------------------------------------------
(* Values the variables of the other components keep in a specification    *)
(* that does not run them.                                                 *)

Threads == {"command", "feedback"}

ConcIdle ==
    /\ pc = [t \in Threads |-> "idle"]
    /\ loc = [t \in Threads |-> "Starting"]

\* no feedback record under way through parse_feedback_line
NoMessage == [alt |-> "none"]

ParserIdle ==
    /\ message_in = NoMessage
    /\ wire_line = <<>>
    /\ message_out = NoMessage

\* the feedback reader after its constructor, before start()
ReaderIdle ==
    /\ running_ = FALSE
    /\ tcp_socket_ = -1
    /\ rpc = "idle"
    /\ current_delay = 100
    /\ line_buffer = <<>>
    /\ slept = <<>>
    /\ connects = 0
    /\ received = <<>>
    /\ crashed = FALSE

\* main and the threads of the command service and of the health monitor,
\* in the specifications that do not follow them
\* A ZMQ_REP socket as the loops use it: recv hands over a request only when
\* no reply is owed, and a send that does not throw pays the reply owed.
RepSockets == {"rep_socket_", "health_socket_"}
RepIdle == [owed |-> FALSE, log |-> <<>>, failed |-> <<>>]
RepRecv(r) == [owed |-> TRUE, log |-> Append(r.log, "recv"), failed |-> <<>>]
\* send at the place `at` of the loop; it throws on its own account (EINTR,
\* ETERM), or with EFSM when no reply is owed
RepSend(r, at, throws) ==
    IF throws \/ ~r.owed THEN [r EXCEPT !.failed = Append(@, at)]
    ELSE [r EXCEPT !.owed = FALSE, !.log = Append(@, "send")]

ServicesIdle ==
    /\ shutdown_requested = FALSE
    /\ main_pc = "idle"
    /\ exit_code = -1
    /\ started = <<>>
    /\ cs_running_ = FALSE
    /\ cs_pc = "idle"
    /\ hm_running_ = FALSE
    /\ hm_pc = "idle"

-----------------------------------------------------------------------------
(* The bundle monitor (plugins/plugin_bundle_monitor.cpp)                  *)

\* the subdirectories the monitored LV2 directory can hold
BundleDirs == {"a.lv2", "b.lv2"}
MaxMtime == 2        \* last write times a manifest.ttl can carry

\* One subdirectory of the monitored directory: `dir` says whether it is
\* there, `mtime` is the last write time of its manifest.ttl, 0 when it holds
\* no manifest.ttl.
DirStates == {[dir |-> FALSE, mtime |-> 0]} \cup [dir : {TRUE}, mtime : 0..MaxMtime]
FsStates == [BundleDirs -> DirStates]

\* the monitored directory when the bridge starts
InitialFs == [d \in BundleDirs |-> [dir |-> TRUE, mtime |-> 1]]

\* std::filesystem::exists(bundle_path / "manifest.ttl")
HasManifest(entry) == entry.dir /\ entry.mtime # 0

\* processBundle: a directory without manifest.ttl is left out of bundle_states_
ProcessBundle(states, d, entry) ==
    IF ~HasManifest(entry) THEN states
    ELSE [x \in DOMAIN states \cup {d} |-> IF x = d THEN entry.mtime ELSE states[x]]

\* hasBundleChanged
HasBundleChanged(entry, last_modified) ==
    IF ~HasManifest(entry) THEN TRUE ELSE entry.mtime # last_modified

\* scanDirectory over every subdirectory, from the states given
RECURSIVE ScanDirectory(_, _, _)
ScanDirectory(states, dirs, files) ==
    IF dirs = {} THEN states
    ELSE LET d == CHOOSE x \in dirs : TRUE IN
           ScanDirectory(IF files[d].dir THEN ProcessBundle(states, d, files[d]) ELSE states,
                         dirs \ {d}, files)

\* startMonitoring: the baseline
Baseline(files) == ScanDirectory([x \in {} |-> x], BundleDirs, files)

\* checkForChanges, the first loop: the subdirectories that are new to
\* bundle_states_ or whose manifest changed
NewOrChanged(states, files) ==
    {d \in BundleDirs : /\ files[d].dir
                        /\ \/ d \notin DOMAIN states
                           \/ HasBundleChanged(files[d], states[d])}

\* checkForChanges, the second loop: the bundles of bundle_states_ that are
\* no longer in the directory
Removed(states, files) == {d \in DOMAIN states : ~files[d].dir}

\* the mutation of HasChanges that looks at manifests only
HasChanges_ManifestsOnly(states, files) ==
    \/ \E d \in NewOrChanged(states, files) : HasManifest(files[d])
    \/ Removed(states, files) # {}

\* checkForChanges: has_changes
HasChanges(states, files) ==
    NewOrChanged(states, files) # {} \/ Removed(states, files) # {}

\* checkForChanges: bundle_states_ after the two loops
StatesAfterCheck(states, files) ==
    LET processed == ScanDirectory(states, NewOrChanged(states, files), files) IN
      [x \in DOMAIN processed \ Removed(states, files) |-> processed[x]]

\* the bundle monitor before PluginManager::initialize(): none is made yet
BundleIdle ==
    /\ fs = InitialFs
    /\ bundle_states_ = [x \in {} |-> x]
    /\ is_monitoring_ = FALSE

\* the bundle monitor after load_available_plugins: startMonitoring ran
BundleMonitoring ==
    /\ fs = InitialFs
    /\ bundle_states_ = Baseline(fs)
    /\ is_monitoring_ = TRUE

\* the threads that call into the registry or send on the publish socket
Callers == {"main", "command", "reader", "monitor"}

\* no thread is inside such a call
LockIdle ==
    /\ mutex_ = "free"
    /\ in_call = [t \in Callers |-> "none"]

\* the registry after its constructor
RegistryFresh ==
    /\ initialized_ = FALSE
    /\ available_plugins_ = {}
    /\ instances_ = [x \in {} |-> x]
    /\ next_instance = 0
    /\ bus = <<>>
    /\ sent = <<>>
    /\ recorded = <<>>
    /\ last = [op |-> "none", status |-> "ok", error |-> ""]
    /\ scanner_calls = <<>>
    /\ ReaderIdle
    /\ ParserIdle
    /\ BundleIdle
    /\ LockIdle
    /\ reader_socket = "unbound"
    /\ wire = <<>>
    /\ rep = [s \in RepSockets |-> RepIdle]

RegistryIdle == RegistryFresh /\ ServicesIdle

HealthFresh ==
    /\ health_state = HealthStateInit(0)
    /\ health_log = <<>>
    /\ now = 0
    /\ updates = 0
    /\ scn = 0

-----------------------------------------------------------------------------
(* SpecHealth: the updates run one at a time *)

MarkCommand(connected) ==
    /\ updates < MaxUpdates
    /\ LET r == UpdateCommandConnection(health_state, health_log, now, connected) IN
         /\ health_state' = r[1]
         /\ health_log' = r[2]
    /\ updates' = updates + 1
    /\ scn' = ScenarioStep(scn, health_state, <<"command", connected>>)
    /\ UNCHANGED <<now, concVars, registryVars>>

MarkFeedback(connected) ==
    /\ updates < MaxUpdates
    /\ LET r == UpdateFeedbackConnection(health_state, health_log, now, connected) IN
         /\ health_state' = r[1]
         /\ health_log' = r[2]
    /\ updates' = updates + 1
    /\ scn' = ScenarioStep(scn, health_state, <<"feedback", connected>>)
    /\ UNCHANGED <<now, concVars, registryVars>>

Tick ==
    /\ now + TickSeconds <= MaxTime
    /\ now' = now + TickSeconds
    /\ UNCHANGED <<health_state, health_log, updates, scn, concVars, registryVars>>

InitHealth == HealthFresh /\ ConcIdle /\ RegistryIdle

NextHealth ==
    \/ \E c \in BOOLEAN : MarkCommand(c)
    \/ \E c \in BOOLEAN : MarkFeedback(c)
    \/ Tick

SpecHealth == InitHealth /\ [][NextHealth]_vars

-----------------------------------------------------------------------------
(* SpecHealthConc: the command client thread and the feedback reader       *)
(* thread run update_command_connection / update_feedback_connection on    *)
(* the shared HealthState, which has no lock and no atomics: every read    *)
(* and write of a field is a step of its own.                              *)

\* update_*_connection, first statement: the store to the thread's flag
CallUpdate(t, connected) ==
    /\ pc[t] = "idle"
    /\ updates < MaxConcUpdates
    /\ health_state' = IF t = "command"
                       THEN [health_state EXCEPT !.command_connected = connected]
                       ELSE [health_state EXCEPT !.feedback_connected = connected]
    /\ pc' = [pc EXCEPT ![t] = "read_cmd"]
    /\ updates' = updates + 1
    /\ UNCHANGED <<health_log, now, scn, loc, registryVars>>

\* if (command_connected && ...): the load of command_connected
ReadCommand(t) ==
    /\ pc[t] = "read_cmd"
    /\ pc' = [pc EXCEPT ![t] = IF health_state.command_connected
                               THEN "read_fb" ELSE "read_cmd2"]
    /\ UNCHANGED <<healthVars, loc, registryVars>>

\* if (... && feedback_connected): the load of feedback_connected
ReadFeedback(t) ==
    /\ pc[t] = "read_fb"
    /\ IF health_state.feedback_connected
       THEN /\ loc' = [loc EXCEPT ![t] = "Healthy"]
            /\ pc' = [pc EXCEPT ![t] = "compare"]
       ELSE /\ loc' = loc
            /\ pc' = [pc EXCEPT ![t] = "read_cmd2"]
    /\ UNCHANGED <<healthVars, registryVars>>

\* else if (command_connected): the second load of command_connected
ReadCommandAgain(t) ==
    /\ pc[t] = "read_cmd2"
    /\ loc' = [loc EXCEPT ![t] = IF health_state.command_connected
                                 THEN "Degraded" ELSE "Unhealthy"]
    /\ pc' = [pc EXCEPT ![t] = "compare"]
    /\ UNCHANGED <<healthVars, registryVars>>

\* if (new_status != status): the load of status; the heartbeat branch when equal
CompareStatus(t) ==
    /\ pc[t] = "compare"
    /\ IF loc[t] # health_state.status
       THEN /\ pc' = [pc EXCEPT ![t] = "write_status"]
            /\ UNCHANGED <<health_state, health_log>>
       ELSE /\ pc' = [pc EXCEPT ![t] = "idle"]
            /\ IF now - health_state.last_health_log >= HeartbeatSeconds
               THEN /\ health_log' = Append(health_log, HeartbeatLine(health_state.status))
                    /\ health_state' = [health_state EXCEPT !.last_health_log = now]
               ELSE UNCHANGED <<health_state, health_log>>
    /\ UNCHANGED <<now, updates, scn, loc, registryVars>>

\* the log line, status = new_status, last_health_log = now
WriteStatus(t) ==
    /\ pc[t] = "write_status"
    /\ health_log' = Append(health_log, ChangedLine(health_state.status, loc[t]))
    /\ health_state' = [health_state EXCEPT !.status = loc[t], !.last_health_log = now]
    /\ pc' = [pc EXCEPT ![t] = "idle"]
    /\ UNCHANGED <<now, updates, scn, loc, registryVars>>

\* time passes between two steps
TickConc ==
    /\ now + TickSeconds <= MaxTime
    /\ now' = now + TickSeconds
    /\ UNCHANGED <<health_state, health_log, updates, scn, concVars, registryVars>>

InitHealthConc == HealthFresh /\ ConcIdle /\ RegistryIdle

NextHealthConc ==
    \/ \E t \in Threads, c \in BOOLEAN : CallUpdate(t, c)
    \/ \E t \in Threads : ReadCommand(t)
    \/ \E t \in Threads : ReadFeedback(t)
    \/ \E t \in Threads : ReadCommandAgain(t)
    \/ \E t \in Threads : CompareStatus(t)
    \/ \E t \in Threads : WriteStatus(t)
    \/ TickConc

SpecHealthConc == InitHealthConc /\ [][NextHealthConc]_vars

-----------------------------------------------------------------------------
(* Engine command port: what one send_to_modhost call can meet             *)
(* (plugins/plugin_manager.cpp). A response body is a sequence of          *)
(* characters.                                                             *)

RESP == <<"r", "e", "s", "p", " ">>
DigitChars == <<"0", "1", "2", "3", "4", "5", "6", "7", "8", "9">>
IsDigit(c) == \E i \in DOMAIN DigitChars : DigitChars[i] = c
DigitValue(c) == (CHOOSE i \in DOMAIN DigitChars : DigitChars[i] = c) - 1

\* std::to_string of a number >= 0
RECURSIVE ToDecimal(_)
ToDecimal(n) ==
    IF n < 10 THEN <<DigitChars[n + 1]>>
    ELSE ToDecimal(n \div 10) \o <<DigitChars[(n % 10) + 1]>>

\* the bodies the engine answers `add <uri> <n>` with in this model: the
\* number asked for (what mod-host answers on success), and bodies that are
\* another number, an error code, or not a `resp <n>` line
AddBodies(n) ==
    { RESP \o ToDecimal(n),       \* resp <n>
      RESP \o <<"0">>,            \* resp 0
      RESP \o <<"-", "3">>,       \* resp -3
      RESP \o ToDecimal(n) \o <<"x">>,  \* resp <n>x  digits followed by garbage
      ToDecimal(n),               \* <n>       no `resp ` token
      RESP \o <<"x">>,            \* resp x    not a number
      RESP,                       \* `resp `   nothing after the token
      <<"x">>,                    \* x         neither token nor number
      <<>> }                      \* the empty string

\* the ways a call returns std::nullopt
\*   no_socket    : socket() failed or the address could not be resolved
\*   connect_fail : connect() failed
\*   send_fail    : send() failed
\*   no_reply     : recv() returned 0 or an error (timeout, peer close)
NulloptKinds == {"no_socket", "connect_fail", "send_fail", "no_reply"}

Nullopt(k) == [kind |-> k, body |-> <<>>]
Reply(b) == [kind |-> "reply", body |-> b]
\* Spec runs the registry against a command port that accepts the connection
\* (the state wait_for_modhost leaves); a refused connection belongs to the
\* specification of the command client.
ConnectedKinds == {"send_fail", "no_reply"}
AddOutcomes(n) == {Nullopt(k) : k \in ConnectedKinds} \cup {Reply(b) : b \in AddBodies(n)}
\* the reply of an engine that accepts the command
RespZero == Reply(RESP \o <<"0">>)

\* an engine that takes the `add` or does not answer it
AddOutcomesBasic(n) == {Reply(RESP \o ToDecimal(n)), Nullopt("no_reply")}
\* outcomes of the commands whose body the caller does not parse
PlainOutcomes == {Nullopt(k) : k \in ConnectedKinds} \cup {Reply(RESP \o <<"0">>)}

HasValue(o) == o.kind = "reply"

\* send_to_modhost: what the call does to the shared HealthState; hs is the
\* pair <<HealthState, log>>
SendToModhost(hs, t, o) ==
    IF o.kind = "no_socket" THEN hs
    ELSE IF o.kind = "connect_fail" THEN UpdateCommandConnection(hs[1], hs[2], t, FALSE)
    ELSE UpdateCommandConnection(hs[1], hs[2], t, TRUE)

\* std::string::find: the index (from 1) of the first occurrence, 0 for npos
Find(str, pat) ==
    LET hits == {i \in 1..(Len(str) - Len(pat) + 1) :
                    SubSeq(str, i, i + Len(pat) - 1) = pat} IN
    IF hits = {} THEN 0 ELSE CHOOSE i \in hits : \A j \in hits : i <= j

RECURSIVE SkipSpace(_)
SkipSpace(str) ==
    IF str # <<>> /\ Head(str) = " " THEN SkipSpace(Tail(str)) ELSE str

RECURSIVE DigitPrefix(_)
DigitPrefix(str) ==
    IF str # <<>> /\ IsDigit(Head(str)) THEN <<Head(str)>> \o DigitPrefix(Tail(str))
    ELSE <<>>

RECURSIVE DigitsValue(_, _)
DigitsValue(digits, acc) ==
    IF digits = <<>> THEN acc
    ELSE DigitsValue(Tail(digits), 10 * acc + DigitValue(Head(digits)))

\* std::stoi: leading white space, an optional sign, then the longest run of
\* digits; what follows the digits is ignored; no digit at all throws.
\* (The bodies of the model have one digit, so out_of_range does not arise.)
Stoi(str) ==
    LET s1 == SkipSpace(str)
        signed == s1 # <<>> /\ Head(s1) \in {"-", "+"}
        s2 == IF signed THEN Tail(s1) ELSE s1
        digits == DigitPrefix(s2)
        magnitude == DigitsValue(digits, 0)
    IN  IF digits = <<>> THEN [ok |-> FALSE, value |-> 0]
        ELSE [ok |-> TRUE,
              value |-> IF signed /\ Head(s1) = "-" THEN 0 - magnitude ELSE magnitude]

\* std::stod on decimal text: leading white space, an optional sign, digits,
\* an optional point and digits; what follows is ignored; no digit at all
\* throws. Values are kept in tenths, and the bodies of the model have at most
\* one digit after the point (no exponent, inf or nan).
Stod(str) ==
    LET s1 == SkipSpace(str)
        signed == s1 # <<>> /\ Head(s1) \in {"-", "+"}
        s2 == IF signed THEN Tail(s1) ELSE s1
        ip == DigitPrefix(s2)
        rest == SubSeq(s2, Len(ip) + 1, Len(s2))
        fp == IF rest # <<>> /\ Head(rest) = "." THEN DigitPrefix(Tail(rest)) ELSE <<>>
        tenths == 10 * DigitsValue(ip, 0) + (IF fp = <<>> THEN 0 ELSE DigitValue(Head(fp)))
    IN  IF ip = <<>> /\ fp = <<>> THEN [ok |-> FALSE, value |-> 0]
        ELSE [ok |-> TRUE,
              value |-> IF signed /\ Head(s1) = "-" THEN 0 - tenths ELSE tenths]

\* a parse that lets a negative number through
ParseAddResponse_NoSignCheck(body) ==
    LET pos == Find(body, RESP)
        resp == IF pos # 0 THEN SubSeq(body, pos + 5, Len(body)) ELSE body
    IN  Stoi(resp)

\* process_load_plugin, the try block: strip up to and including "resp " when
\* present, stoi, reject a negative number; ok = FALSE when it throws
ParseAddResponse(body) ==
    LET pos == Find(body, RESP)
        resp == IF pos # 0 THEN SubSeq(body, pos + 5, Len(body)) ELSE body
        r == Stoi(resp)
    IN  IF r.ok /\ r.value >= 0 THEN r ELSE [ok |-> FALSE, value |-> -1]

-----------------------------------------------------------------------------
(* PluginManager (plugins/plugin_manager.h, plugins/plugin_manager.cpp) *)

MaxLoads == 3           \* `add` commands issued over a run
MaxLive == 2            \* instances loaded at the same time

Catalog == {"foo_uri"}
Uris == Catalog \cup {"missing_uri"}
\* what a read through the dangling reference of process_unload_plugin can give
GarbageUri == "<freed>"
\* the eight random hex digits of generate_instance_id
HexDraws == {"0000000a", "0000000b"}
ParamSymbols == {"gain"}
EmptyMap == [x \in {} |-> x]
\* LoadPluginRequest::parameters (values in tenths)
ParamInputs == {EmptyMap, [p \in ParamSymbols |-> 5]}

\* generate_instance_id: "plugin_" << instances_.size() << "_" << hex digits
GenerateInstanceId(instances, hex) == <<"plugin", Cardinality(DOMAIN instances), hex>>

\* an instance id no load has generated
UnknownId == <<"plugin", 99, "ffffffff">>

\* an allocator that hands the same slot out again
GetNextNumericInstance_NoIncrement(counter) == [value |-> counter, counter |-> counter]

\* get_next_numeric_instance: return next_instance++
GetNextNumericInstance(counter) == [value |-> counter, counter |-> counter + 1]

\* a command line: the command word, what it is addressed to (<<uri>> or an
\* instance id) and the remaining words, each a tuple
Command(name, target, arg) == [cmd |-> name, target |-> target, arg |-> arg]
Event(type, id, uri) == [type |-> type, instance_id |-> id, uri |-> uri]

\* publish_event: nothing without a socket (pub_socket_ is set by initialize()
\* and reset by shutdown(), as initialized_ is), else the event is handed to
\* pub_socket_->send
PublishEvent(events, socket_open, ev) == IF socket_open THEN Append(events, ev) ELSE events

MapPut(m, k, v) == [x \in DOMAIN m \cup {k} |-> IF x = k THEN v ELSE m[x]]
MapErase(m, k) == [x \in DOMAIN m \ {k} |-> m[x]]

\* the registry and what it has written, as one value the helpers below thread
Cur == [instances |-> instances_, bus |-> bus, sent |-> sent,
        hs |-> <<health_state, health_log>>]

\* process_load_plugin, "Set initial parameters": one param_set per parameter,
\* the result of each ignored; outs gives the outcome of each send
RECURSIVE SendInitialParams(_, _, _, _)
SendInitialParams(st, id, params, outs) ==
    IF DOMAIN params = {} THEN {st}
    ELSE UNION { SendInitialParams(
                    [st EXCEPT !.sent = Append(@, Command("param_set", id, <<p, params[p]>>)),
                               !.hs = SendToModhost(@, now, outs[p])],
                    id, [q \in DOMAIN params \ {p} |-> params[q]], outs)
                 : p \in DOMAIN params }

\* an unload that publishes nothing when the engine did not take the remove
UnloadKnown_SilentOnFailure(st, id, o, uri_read) ==
    [st EXCEPT !.sent = Append(@, Command("remove", id, <<>>)),
               !.hs = SendToModhost(@, now, o),
               !.instances = MapErase(@, id),
               !.bus = IF HasValue(o)
                       THEN Append(@, Event("plugin_unloaded", id, uri_read)) ELSE @]

\* an unload that gives up when the engine did not take the remove
UnloadKnown_KeepOnFailure(st, id, o, uri_read) ==
    IF HasValue(o)
    THEN [st EXCEPT !.sent = Append(@, Command("remove", id, <<>>)),
                    !.hs = SendToModhost(@, now, o),
                    !.instances = MapErase(@, id),
                    !.bus = Append(@, Event("plugin_unloaded", id, uri_read))]
    ELSE [st EXCEPT !.sent = Append(@, Command("remove", id, <<>>)),
                    !.hs = SendToModhost(@, now, o)]

\* process_unload_plugin on an instance it found: send remove (the result only
\* logged), erase, publish plugin_unloaded. `instance` is a reference into the
\* erased node, so the uri put in the event is whatever the read gives.
UnloadKnown(st, id, o, uri_read) ==
    [st EXCEPT !.sent = Append(@, Command("remove", id, <<>>)),
               !.hs = SendToModhost(@, now, o),
               !.instances = MapErase(@, id),
               !.bus = PublishEvent(@, initialized_, Event("plugin_unloaded", id, uri_read))]

UriReads(instances, id) == {instances[id].uri, GarbageUri}

\* process_clear_all: the ids collected first, then process_unload_plugin on
\* each, in the iteration order of the unordered_map
RECURSIVE ClearAllResults(_, _)
ClearAllResults(st, ids) ==
    IF ids = {} THEN {st}
    ELSE UNION { ClearAllResults(UnloadKnown(st, id, o, u), ids \ {id})
                 : <<id, o, u>> \in
                     {<<i, oo, uu>> \in ids \X PlainOutcomes \X (Uris \cup {GarbageUri}) :
                         uu \in UriReads(st.instances, i)} }

\* shutdown, "Clear all instances": a remove per instance, then clear()
RECURSIVE ShutdownResults(_, _)
ShutdownResults(st, ids) ==
    IF ids = {} THEN {[st EXCEPT !.instances = EmptyMap]}
    ELSE UNION { ShutdownResults(
                    [st EXCEPT !.sent = Append(@, Command("remove", id, <<>>)),
                               !.hs = SendToModhost(@, now, o)],
                    ids \ {id})
                 : <<id, o>> \in ids \X PlainOutcomes }

Commit(st) ==
    /\ instances_' = st.instances
    /\ bus' = st.bus
    /\ sent' = st.sent
    /\ health_state' = st.hs[1]
    /\ health_log' = st.hs[2]

registryFrame == <<now, updates, scn, concVars, sharedVars, initialized_, available_plugins_,
                   scanner_calls, readerVars, parserVars, lifeVars>>

\* process_load_plugin; o is the outcome of the `add`, outs the outcome of the
\* param_set of each initial parameter
LoadPluginWith(uri, params, hex, o, outs) ==
    /\ initialized_
    /\ IF uri \notin available_plugins_
       THEN /\ last' = [op |-> "load_plugin",
                        status |-> "error", error |-> "PluginNotFound"]
            /\ UNCHANGED <<instances_, bus, sent, health_state, health_log,
                           next_instance, recorded>>
       ELSE /\ next_instance < MaxLoads
            /\ Cardinality(DOMAIN instances_) < MaxLive
            /\ LET instance_id == GenerateInstanceId(instances_, hex)
                   alloc == GetNextNumericInstance(next_instance)
                   st1 == [Cur EXCEPT
                             !.sent = Append(@, Command("add", <<uri>>, <<alloc.value>>)),
                             !.hs = SendToModhost(@, now, o)]
                   parsed == ParseAddResponse(o.body)
               IN  /\ next_instance' = alloc.counter
                   /\ IF ~HasValue(o)
                      THEN /\ Commit(st1)
                           /\ recorded' = recorded
                           /\ last' = [op |-> "load_plugin",
                                       status |-> "error", error |-> "EngineUnreachable"]
                      ELSE IF ~parsed.ok
                      THEN /\ Commit(st1)
                           /\ recorded' = recorded
                           /\ last' = [op |-> "load_plugin",
                                       status |-> "error", error |-> "EngineError"]
                      ELSE \E st2 \in SendInitialParams(st1, instance_id, params, outs) :
                             LET instance == [uri |-> uri, instance_id |-> instance_id,
                                              parameters |-> params,
                                              host_instance |-> parsed.value]
                                 st3 == [st2 EXCEPT
                                           !.instances = MapPut(@, instance_id, instance),
                                           !.bus = PublishEvent(@, initialized_,
                                                     Event("plugin_loaded", instance_id, uri))]
                             IN  /\ Commit(st3)
                                 /\ recorded' = Append(recorded, parsed.value)
                                 /\ last' = [op |-> "load_plugin",
                                             status |-> "ok", error |-> ""]
    /\ UNCHANGED registryFrame

\* process_command(LoadPluginRequest) -> process_load_plugin
LoadPlugin(uri, params, hex, o) ==
    \E outs \in [DOMAIN params -> PlainOutcomes] : LoadPluginWith(uri, params, hex, o, outs)

\* process_command(UnloadPluginRequest) -> process_unload_plugin
UnloadPlugin(id, o, uri_read) ==
    /\ initialized_
    /\ IF id \notin DOMAIN instances_
       THEN /\ last' = [op |-> "unload_plugin",
                        status |-> "error", error |-> "InstanceNotFound"]
            /\ UNCHANGED <<instances_, bus, sent, health_state, health_log>>
       ELSE /\ uri_read \in UriReads(instances_, id)
            /\ Commit(UnloadKnown(Cur, id, o, uri_read))
            /\ last' = [op |-> "unload_plugin",
                        status |-> "ok", error |-> ""]
    /\ UNCHANGED <<next_instance, recorded>>
    /\ UNCHANGED registryFrame

\* process_command(ClearAllRequest) -> process_clear_all
ClearAll ==
    /\ initialized_
    /\ \E st \in ClearAllResults(Cur, DOMAIN instances_) : Commit(st)
    /\ last' = [op |-> "clear_all", status |-> "ok", error |-> ""]
    /\ UNCHANGED <<next_instance, recorded>>
    /\ UNCHANGED registryFrame

\* PluginManager::shutdown (the destructor, at the end of main)
Shutdown ==
    /\ initialized_
    /\ \E st \in ShutdownResults(Cur, DOMAIN instances_) : Commit(st)
    /\ initialized_' = FALSE
    /\ last' = [op |-> "shutdown", status |-> "ok", error |-> ""]
    /\ is_monitoring_' = FALSE
    /\ bundle_states_' = EmptyMap
    /\ UNCHANGED <<next_instance, recorded, now, updates, scn, concVars, fs, lockVars,
                   reader_socket, wire, rep, available_plugins_, scanner_calls, readerVars, parserVars, lifeVars>>

\* SetParameterRequest::value, GetParameterResponse::value (in tenths)
ParamValues == {5, 7}
\* the value the engine reports for a parameter in this model (in tenths)
EngineValue == 3
MaxCommands == 3
MaxEvents == 3

\* the text of a value in tenths, 0 <= v < 100
ValueText(v) == ToDecimal(v \div 10) \o <<".">> \o ToDecimal(v % 10)

\* replies to `param_set`: accepted, an error code, not a resp line
ParamSetOutcomes ==
    PlainOutcomes \cup {Reply(RESP \o <<"-", "1">>), Reply(<<"x">>)}

\* replies to `param_get`: a bare number, a number followed by garbage, the
\* line mod-host answers (`resp 0 <value>`), an error code, nothing usable
ParamGetBodies ==
    { ValueText(EngineValue),
      ValueText(EngineValue) \o <<"x">>,
      RESP \o <<"0", " ">> \o ValueText(EngineValue),
      RESP \o <<"-", "1">>,
      <<"x">>,
      <<>> }
ParamGetOutcomes ==
    {Nullopt(k) : k \in ConnectedKinds} \cup {Reply(b) : b \in ParamGetBodies}

ParamEvent(id, parameter, value) ==
    [type |-> "parameter_changed", instance_id |-> id,
     parameter |-> parameter, value |-> value]

\* process_command(SetParameterRequest) -> process_set_parameter
SetParameter(id, parameter, value, o) ==
    /\ initialized_
    /\ Len(sent) < MaxCommands
    /\ IF id \notin DOMAIN instances_
       THEN /\ last' = [op |-> "set_parameter",
                        status |-> "error", error |-> "InstanceNotFound"]
            /\ UNCHANGED <<instances_, bus, sent, health_state, health_log>>
       ELSE LET st1 == [Cur EXCEPT
                          !.sent = Append(@, Command("param_set", id, <<parameter, value>>)),
                          !.hs = SendToModhost(@, now, o)]
            IN  IF ~HasValue(o)
                THEN /\ Commit(st1)
                     /\ last' = [op |-> "set_parameter",
                                 status |-> "error", error |-> "EngineUnreachable"]
                ELSE /\ Commit([st1 EXCEPT
                                  !.instances[id].parameters = MapPut(@, parameter, value),
                                  !.bus = PublishEvent(@, initialized_,
                                                       ParamEvent(id, parameter, value))])
                     /\ last' = [op |-> "set_parameter", status |-> "ok", error |-> ""]
    /\ UNCHANGED <<next_instance, recorded>>
    /\ UNCHANGED registryFrame

\* a get_parameter that answers from the stored values only
GetParameterValue_StoredOnly(instance, parameter, o) ==
    IF parameter \in DOMAIN instance.parameters
    THEN instance.parameters[parameter] ELSE 0

\* process_get_parameter, the value returned: std::stod of the reply, else the
\* stored value, else 0.0
GetParameterValue(instance, parameter, o) ==
    LET stored == IF parameter \in DOMAIN instance.parameters
                  THEN instance.parameters[parameter] ELSE 0
    IN  IF HasValue(o) /\ Stod(o.body).ok THEN Stod(o.body).value ELSE stored

\* process_command(GetParameterRequest) -> process_get_parameter
GetParameter(id, parameter, o) ==
    /\ initialized_
    /\ Len(sent) < MaxCommands
    /\ IF id \notin DOMAIN instances_
       THEN /\ last' = [op |-> "get_parameter",
                        status |-> "error", error |-> "InstanceNotFound"]
            /\ UNCHANGED <<instances_, bus, sent, health_state, health_log>>
       ELSE /\ Commit([Cur EXCEPT
                         !.sent = Append(@, Command("param_get", id, <<parameter>>)),
                         !.hs = SendToModhost(@, now, o)])
            /\ last' = [op |-> "get_parameter", status |-> "ok", error |-> "",
                        parameter |-> parameter,
                        value |-> GetParameterValue(instances_[id], parameter, o)]
    /\ UNCHANGED <<next_instance, recorded>>
    /\ UNCHANGED registryFrame

-----------------------------------------------------------------------------
(* Engine feedback records (utils/parser.cpp, utils/types.h). A line is a  *)
(* sequence of characters; a double is kept in tenths, as in Stod.          *)

\* the leading keyword of each recognized feedback type, as characters
Keyword(name) ==
    CASE name = "param_set" -> <<"p", "a", "r", "a", "m", "_", "s", "e", "t">>
      [] name = "audio_monitor" -> <<"a", "u", "d", "i", "o", "_", "m", "o", "n", "i", "t", "o", "r">>
      [] name = "output_set" -> <<"o", "u", "t", "p", "u", "t", "_", "s", "e", "t">>
      [] name = "midi_mapped" -> <<"m", "i", "d", "i", "_", "m", "a", "p", "p", "e", "d">>
      [] name = "midi_control_change" -> <<"m", "i", "d", "i", "_", "c", "o", "n", "t", "r", "o", "l", "_", "c", "h", "a", "n", "g", "e">>
      [] name = "midi_program_change" -> <<"m", "i", "d", "i", "_", "p", "r", "o", "g", "r", "a", "m", "_", "c", "h", "a", "n", "g", "e">>
      [] name = "transport" -> <<"t", "r", "a", "n", "s", "p", "o", "r", "t">>
      [] name = "patch_set" -> <<"p", "a", "t", "c", "h", "_", "s", "e", "t">>
      [] name = "log" -> <<"l", "o", "g">>
      [] name = "cpu_load" -> <<"c", "p", "u", "_", "l", "o", "a", "d">>
      [] name = "data_finish" -> <<"d", "a", "t", "a", "_", "f", "i", "n", "i", "s", "h">>
      [] name = "cc_map" -> <<"c", "c", "_", "m", "a", "p">>

\* std::isspace in the "C" locale, for the characters of the model
Whitespace == {" ", "\t", "\n"}

RECURSIVE SkipWhitespace(_)
SkipWhitespace(str) ==
    IF str # <<>> /\ Head(str) \in Whitespace THEN SkipWhitespace(Tail(str)) ELSE str

\* the longest prefix without white space
RECURSIVE TokenPrefix(_)
TokenPrefix(str) ==
    IF str # <<>> /\ Head(str) \notin Whitespace
    THEN <<Head(str)>> \o TokenPrefix(Tail(str))
    ELSE <<>>

\* the prefix before the first '\n'
RECURSIVE LinePrefix(_)
LinePrefix(str) ==
    IF str # <<>> /\ Head(str) # "\n" THEN <<Head(str)>> \o LinePrefix(Tail(str)) ELSE <<>>

DropPrefix(str, n) == SubSeq(str, n + 1, Len(str))

\* std::istringstream iss(line): the characters not yet read and failbit
IStream(line) == [rest |-> line, fail |-> FALSE]

\* std::istream::sentry of a formatted extraction: nothing on a failed
\* stream; else skip white space, and fail at the end of the input
Sentry(iss) ==
    IF iss.fail THEN iss
    ELSE LET r == SkipWhitespace(iss.rest) IN [rest |-> r, fail |-> r = <<>>]

\* iss >> std::string. `old` is what the variable held: an extraction whose
\* sentry fails leaves its operand as it was.
ExtractString(iss, old) ==
    LET s == Sentry(iss)
        t == TokenPrefix(s.rest)
    IN  IF s.fail THEN [iss |-> s, val |-> old]
        ELSE [iss |-> [s EXCEPT !.rest = DropPrefix(s.rest, Len(t))], val |-> t]

\* iss >> uint32_t: the longest run of digits; none stores 0 and sets failbit.
\* (The lines of the model carry no sign and no number beyond 32 bits.)
ExtractUnsigned(iss, old) ==
    LET s == Sentry(iss)
        d == DigitPrefix(s.rest)
    IN  IF s.fail THEN [iss |-> s, val |-> old]
        ELSE IF d = <<>> THEN [iss |-> [s EXCEPT !.fail = TRUE], val |-> 0]
        ELSE [iss |-> [s EXCEPT !.rest = DropPrefix(s.rest, Len(d))],
              val |-> DigitsValue(d, 0)]

\* iss >> double: digits, an optional point and digits; no digit stores 0 and
\* sets failbit. The value is in tenths; the lines of the model have at most
\* one digit after the point, no sign and no exponent.
ExtractDouble(iss, old) ==
    LET s == Sentry(iss)
        ip == DigitPrefix(s.rest)
        r1 == DropPrefix(s.rest, Len(ip))
        point == r1 # <<>> /\ Head(r1) = "."
        fp == IF point THEN DigitPrefix(Tail(r1)) ELSE <<>>
        used == Len(ip) + (IF point THEN 1 + Len(fp) ELSE 0)
    IN  IF s.fail THEN [iss |-> s, val |-> old]
        ELSE IF ip = <<>> /\ fp = <<>> THEN [iss |-> [s EXCEPT !.fail = TRUE], val |-> 0]
        ELSE [iss |-> [s EXCEPT !.rest = DropPrefix(s.rest, used)],
              val |-> 10 * DigitsValue(ip, 0) +
                      (IF fp = <<>> THEN 0 ELSE DigitValue(Head(fp)))]

\* iss >> bool without boolalpha: reads an integer; 0 is false, 1 is true,
\* another number stores true and sets failbit, no digit stores false and
\* sets failbit
ExtractBool(iss, old) ==
    LET s == Sentry(iss)
        d == DigitPrefix(s.rest)
        n == DigitsValue(d, 0)
    IN  IF s.fail THEN [iss |-> s, val |-> old]
        ELSE IF d = <<>> THEN [iss |-> [s EXCEPT !.fail = TRUE], val |-> FALSE]
        ELSE [iss |-> [rest |-> DropPrefix(s.rest, Len(d)), fail |-> n > 1],
              val |-> n >= 1]

\* std::getline(iss, str): nothing on a failed stream (str stays empty); else
\* the characters up to the first '\n', which is consumed
GetLine(iss) ==
    LET l == LinePrefix(iss.rest) IN
    IF iss.fail THEN [iss |-> iss, val |-> <<>>]
    ELSE [iss |-> [rest |-> DropPrefix(iss.rest, Len(l) + 1),
                   fail |-> iss.rest = <<>>],
          val |-> l]

\* the mutation of StripLeadingSpace that keeps the separator
StripLeadingSpace_Keep(str) == str

\* if (!s.empty() && s[0] == ' ') s = s.substr(1)
StripLeadingSpace(str) == IF str # <<>> /\ Head(str) = " " THEN Tail(str) ELSE str

\* Json::Value of the model: null or a non-negative integer
JsonNull == [json |-> "null"]
JsonNumber(n) == [json |-> "number", n |-> n]

\* Json::Reader::parse into a default (null) Json::Value: the value read, or
\* null when the text is not a JSON document
ParseJson(text) ==
    LET body == SkipWhitespace(text)
        d == DigitPrefix(body)
    IN  IF d # <<>> /\ SkipWhitespace(DropPrefix(body, Len(d))) = <<>>
        THEN JsonNumber(DigitsValue(d, 0))
        ELSE JsonNull

\* the mutation of UnknownFeedback that keeps only the leading token
UnknownFeedback_Token(line) ==
    [alt |-> "UnknownFeedback", type |-> "unknown",
     raw |-> TokenPrefix(SkipWhitespace(line))]

\* UnknownFeedback{"unknown", line}
UnknownFeedback(line) == [alt |-> "UnknownFeedback", type |-> "unknown", raw |-> line]

\* The locals of parse_feedback_line are declared without an initializer; one
\* that no extraction writes is returned with an indeterminate value. `g`
\* gives the indeterminate values: [u32, f64, bool].
ParseFeedbackLine(line, g) ==
    LET t == ExtractString(IStream(line), <<>>)
        type == t.val
        iss == t.iss
    IN
    IF type = Keyword("param_set") THEN
        LET a == ExtractUnsigned(iss, g.u32)
            b == ExtractString(a.iss, <<>>)
            c == ExtractDouble(b.iss, g.f64)
        IN  [alt |-> "ParamSet", type |-> "param_set", effect_id |-> a.val,
             symbol |-> b.val, value |-> c.val]
    ELSE IF type = Keyword("audio_monitor") THEN
        LET a == ExtractUnsigned(iss, g.u32)
            b == ExtractDouble(a.iss, g.f64)
        IN  [alt |-> "AudioMonitor", type |-> "audio_monitor", index |-> a.val,
             value |-> b.val]
    ELSE IF type = Keyword("output_set") THEN
        LET a == ExtractUnsigned(iss, g.u32)
            b == ExtractString(a.iss, <<>>)
            c == ExtractDouble(b.iss, g.f64)
        IN  [alt |-> "OutputSet", type |-> "output_set", effect_id |-> a.val,
             symbol |-> b.val, value |-> c.val]
    ELSE IF type = Keyword("midi_mapped") THEN
        LET a == ExtractUnsigned(iss, g.u32)
            b == ExtractString(a.iss, <<>>)
            c == ExtractUnsigned(b.iss, g.u32)
            d == ExtractUnsigned(c.iss, g.u32)
        IN  [alt |-> "MidiMapped", type |-> "midi_mapped", effect_id |-> a.val,
             symbol |-> b.val, channel |-> c.val, controller |-> d.val]
    ELSE IF type = Keyword("midi_control_change") THEN
        LET a == ExtractUnsigned(iss, g.u32)
            b == ExtractUnsigned(a.iss, g.u32)
            c == ExtractUnsigned(b.iss, g.u32)
        IN  [alt |-> "MidiControlChange", type |-> "midi_control_change",
             channel |-> a.val, control |-> b.val, value |-> c.val]
    ELSE IF type = Keyword("midi_program_change") THEN
        LET a == ExtractUnsigned(iss, g.u32)
            b == ExtractUnsigned(a.iss, g.u32)
        IN  [alt |-> "MidiProgramChange", type |-> "midi_program_change",
             program |-> a.val, channel |-> b.val]
    ELSE IF type = Keyword("transport") THEN
        LET a == ExtractBool(iss, g.bool)
            b == ExtractDouble(a.iss, g.f64)
            c == ExtractDouble(b.iss, g.f64)
        IN  [alt |-> "Transport", type |-> "transport", rolling |-> a.val,
             bpb |-> b.val, bpm |-> c.val]
    ELSE IF type = Keyword("patch_set") THEN
        LET a == ExtractUnsigned(iss, g.u32)
            b == ExtractString(a.iss, <<>>)
            remaining == StripLeadingSpace(GetLine(b.iss).val)
        IN  [alt |-> "PatchSet", type |-> "patch_set", instance |-> a.val,
             symbol |-> b.val, value |-> ParseJson(remaining)]
    ELSE IF type = Keyword("log") THEN
        LET a == ExtractUnsigned(iss, g.u32)
            message == StripLeadingSpace(GetLine(a.iss).val)
        IN  [alt |-> "Log", type |-> "log", level |-> a.val, message |-> message]
    ELSE IF type = Keyword("cpu_load") THEN
        LET a == ExtractDouble(iss, g.f64)
            b == ExtractDouble(a.iss, g.f64)
            c == ExtractUnsigned(b.iss, g.u32)
        IN  [alt |-> "CpuLoad", type |-> "cpu_load", load |-> a.val,
             max_load |-> b.val, xruns |-> c.val]
    ELSE IF type = Keyword("data_finish") THEN
        [alt |-> "DataFinish", type |-> "data_finish"]
    ELSE IF type = Keyword("cc_map") THEN
        [alt |-> "CcMap", type |-> "cc_map", raw |-> StripLeadingSpace(GetLine(iss).val)]
    ELSE UnknownFeedback(line)

\* to_json(const FeedbackMessage&): the flat object with the type string and
\* the fields of the alternative held
FeedbackToJson(message) == [f \in DOMAIN message \ {"alt"} |-> message[f]]

\* The record the engine writes for an event (the grammar parse_feedback_line
\* reads): the keyword, then the fields in order, one space before each;
\* a number in decimal, a bool as 1 or 0, a string and the rest of the line
\* as they are, a JSON value as its text.
BoolText(b) == IF b THEN <<"1">> ELSE <<"0">>
JsonText(v) == IF v.json = "number" THEN ToDecimal(v.n) ELSE <<"n", "u", "l", "l">>
Field(text) == <<" ">> \o text

WireLine(m) ==
    CASE m.alt = "ParamSet" ->
            Keyword("param_set") \o Field(ToDecimal(m.effect_id)) \o Field(m.symbol)
                \o Field(ValueText(m.value))
      [] m.alt = "OutputSet" ->
            Keyword("output_set") \o Field(ToDecimal(m.effect_id)) \o Field(m.symbol)
                \o Field(ValueText(m.value))
      [] m.alt = "AudioMonitor" ->
            Keyword("audio_monitor") \o Field(ToDecimal(m.index)) \o Field(ValueText(m.value))
      [] m.alt = "MidiMapped" ->
            Keyword("midi_mapped") \o Field(ToDecimal(m.effect_id)) \o Field(m.symbol)
                \o Field(ToDecimal(m.channel)) \o Field(ToDecimal(m.controller))
      [] m.alt = "MidiControlChange" ->
            Keyword("midi_control_change") \o Field(ToDecimal(m.channel))
                \o Field(ToDecimal(m.control)) \o Field(ToDecimal(m.value))
      [] m.alt = "MidiProgramChange" ->
            Keyword("midi_program_change") \o Field(ToDecimal(m.program))
                \o Field(ToDecimal(m.channel))
      [] m.alt = "Transport" ->
            Keyword("transport") \o Field(BoolText(m.rolling)) \o Field(ValueText(m.bpb))
                \o Field(ValueText(m.bpm))
      [] m.alt = "PatchSet" ->
            Keyword("patch_set") \o Field(ToDecimal(m.instance)) \o Field(m.symbol)
                \o Field(JsonText(m.value))
      [] m.alt = "Log" ->
            Keyword("log") \o Field(ToDecimal(m.level)) \o Field(m.message)
      [] m.alt = "CpuLoad" ->
            Keyword("cpu_load") \o Field(ValueText(m.load)) \o Field(ValueText(m.max_load))
                \o Field(ToDecimal(m.xruns))
      [] m.alt = "DataFinish" -> Keyword("data_finish")
      [] m.alt = "CcMap" -> Keyword("cc_map") \o Field(m.raw)

\* the field values of the events of SpecParser
U32Values == {0, 12}
F64Values == {5, 40}
StrValues == {<<"g">>, <<"a", " ", "b">>, <<>>}
TextValues == {<<>>, <<"h", "i">>, <<" ", "x">>, <<"a", "\n", "b">>}
JsonValues == {JsonNull, JsonNumber(7)}

\* every feedback type with every tuple of these field values
FeedbackTuples ==
    [alt : {"ParamSet"}, type : {"param_set"}, effect_id : U32Values, symbol : StrValues,
     value : F64Values]
    \cup [alt : {"OutputSet"}, type : {"output_set"}, effect_id : U32Values,
          symbol : StrValues, value : F64Values]
    \cup [alt : {"AudioMonitor"}, type : {"audio_monitor"}, index : U32Values,
          value : F64Values]
    \cup [alt : {"MidiMapped"}, type : {"midi_mapped"}, effect_id : U32Values,
          symbol : StrValues, channel : U32Values, controller : U32Values]
    \cup [alt : {"MidiControlChange"}, type : {"midi_control_change"}, channel : U32Values,
          control : U32Values, value : U32Values]
    \cup [alt : {"MidiProgramChange"}, type : {"midi_program_change"}, program : U32Values,
          channel : U32Values]
    \cup [alt : {"Transport"}, type : {"transport"}, rolling : BOOLEAN, bpb : F64Values,
          bpm : F64Values]
    \cup [alt : {"PatchSet"}, type : {"patch_set"}, instance : U32Values, symbol : StrValues,
          value : JsonValues]
    \cup [alt : {"Log"}, type : {"log"}, level : U32Values, message : TextValues]
    \cup [alt : {"CpuLoad"}, type : {"cpu_load"}, load : F64Values, max_load : F64Values,
          xruns : U32Values]
    \cup [alt : {"DataFinish"}, type : {"data_finish"}]
    \cup [alt : {"CcMap"}, type : {"cc_map"}, raw : TextValues]

parserFrame == <<health_state, health_log, now, updates, scn, concVars, sharedVars, initialized_,
                 available_plugins_, instances_, next_instance, bus, sent, recorded, last,
                 scanner_calls, readerVars, lifeVars>>

\* the engine writes the record of the event
WriteRecord ==
    /\ message_in # NoMessage
    /\ wire_line = <<>>
    /\ wire_line' = WireLine(message_in)
    /\ UNCHANGED <<message_in, message_out>>
    /\ UNCHANGED parserFrame

\* parse_feedback_line(wire_line)
ParseRecord(g) ==
    /\ wire_line # <<>>
    /\ message_out = NoMessage
    /\ message_out' = ParseFeedbackLine(wire_line, g)
    /\ UNCHANGED <<message_in, wire_line>>
    /\ UNCHANGED parserFrame

-----------------------------------------------------------------------------
(* The feedback reader (core/feedback_reader.cpp) *)

MIN_DELAY == 100
MAX_DELAY == 5000
\* the byte that ends a feedback record
NUL == "NUL"
\* the descriptor socket() returns to connect_to_modhost
FeedbackFd == 3

MaxSleeps == 8      \* backoff sleeps since the start or the last successful connect
MaxConnects == 2    \* successful connects of the reader
MaxRecords == 1     \* complete non-empty records taken from the stream
MaxLine == 1        \* characters of one record
MaxChunk == 2       \* bytes returned by one recv

Min(a, b) == IF a <= b THEN a ELSE b

\* the mutation of NextDelay that forgets the cap
NextDelay_NoCap(d) == d * 2

\* current_delay = std::min(current_delay * 2, MAX_DELAY)
NextDelay(d) == Min(d * 2, MAX_DELAY)

\* What pub_socket_.send can do. main builds the reader from
\* *plugin_manager->get_pub_socket() before PluginManager::initialize() has
\* made the socket, so the reader's pub_socket_ is a reference bound through
\* a null pointer: the send is a member call on no object (the process is
\* ended by a signal, or the call goes through), and a send that throws is
\* caught and logged.
PublishOutcomes == {"sent", "failed", "crash"}

\* the indeterminate values a local of parse_feedback_line can hold
Indeterminate == [u32 : {0, 9}, f64 : {0, 9}, bool : BOOLEAN]

\* the bytes one recv can return
Bytes == {"c", NUL}
Chunks == UNION {[1..n -> Bytes] : n \in 1..MaxChunk}

\* the best-effort send of one event: st has the fields bus and crashed
Publish(st, event, o) ==
    IF o = "sent" THEN [st EXCEPT !.bus = Append(@, event)]
    ELSE IF o = "crash" THEN [st EXCEPT !.crashed = TRUE]
    ELSE st

\* reader_loop, the for loop over the bytes of one recv, from byte i on; outs
\* gives the outcome of the send made at each byte
RECURSIVE ProcessBytes(_, _, _, _, _)
ProcessBytes(st, buffer, i, outs, g) ==
    IF i > Len(buffer) \/ st.crashed THEN st
    ELSE IF buffer[i] # NUL
    THEN ProcessBytes([st EXCEPT !.line_buffer = Append(@, buffer[i])], buffer, i + 1, outs, g)
    ELSE IF st.line_buffer = <<>> THEN ProcessBytes(st, buffer, i + 1, outs, g)
    ELSE LET message == ParseFeedbackLine(st.line_buffer, g)
             taken == [st EXCEPT !.received =
                          Append(@, [line |-> st.line_buffer, send |-> outs[i]])]
             done == Publish(taken, FeedbackToJson(message), outs[i])
         IN  ProcessBytes([done EXCEPT !.line_buffer = <<>>], buffer, i + 1, outs, g)

\* to_json of the ParamSet a `param_set <effect> <symbol> <value>` record
\* parses to
FeedbackEvent(effect_id, symbol, value) ==
    [type |-> "param_set", effect_id |-> effect_id, symbol |-> symbol, value |-> value]

\* FeedbackReader::reader_loop on a complete `param_set <effect> <symbol>
\* <value>` record: parse, to_json, send through the reader's pub_socket_.
\* The reader holds no reference to the PluginManager.
FeedbackParamSet(effect_id, symbol, value) ==
    /\ initialized_
    /\ ~crashed
    /\ Len(bus) < MaxEvents
    /\ \E o \in PublishOutcomes :
         LET st == Publish([bus |-> bus, crashed |-> FALSE],
                           FeedbackEvent(effect_id, symbol, value), o) IN
           /\ bus' = st.bus
           /\ crashed' = st.crashed
    /\ UNCHANGED <<instances_, sent, health_state, health_log, next_instance,
                   recorded, last>>
    /\ UNCHANGED <<now, updates, scn, concVars, sharedVars, initialized_, available_plugins_,
                   scanner_calls, running_, tcp_socket_, rpc, current_delay, line_buffer,
                   slept, connects, received, parserVars, lifeVars>>

readerFrame == <<now, updates, scn, concVars, sharedVars, initialized_, available_plugins_,
                 instances_, next_instance, sent, recorded, last, scanner_calls,
                 parserVars, lifeVars>>

\* FeedbackReader::start, and the thread entering reader_loop
ReaderStart ==
    /\ ~crashed
    /\ rpc = "idle"
    /\ ~running_
    /\ running_' = TRUE
    /\ rpc' = "loop"
    /\ current_delay' = MIN_DELAY
    /\ UNCHANGED <<health_state, health_log, bus, tcp_socket_, line_buffer, slept,
                   connects, received, crashed>>
    /\ UNCHANGED readerFrame

\* while (running_)
ReaderLoopTest ==
    /\ ~crashed
    /\ rpc = "loop"
    /\ rpc' = IF running_ THEN "connect" ELSE "done"
    /\ UNCHANGED <<health_state, health_log, bus, running_, tcp_socket_, current_delay,
                   line_buffer, slept, connects, received, crashed>>
    /\ UNCHANGED readerFrame

\* connect_to_modhost: true with the socket in tcp_socket_, or false with
\* tcp_socket_ = -1
ReaderConnect(ok) ==
    /\ ~crashed
    /\ rpc = "connect"
    /\ IF ok
       THEN /\ connects < MaxConnects
            /\ tcp_socket_' = FeedbackFd
            /\ connects' = connects + 1
            /\ slept' = <<>>
            /\ rpc' = "connected"
       ELSE /\ running_ => Len(slept) < MaxSleeps
            /\ tcp_socket_' = -1
            /\ rpc' = "connect_failed"
            /\ UNCHANGED <<connects, slept>>
    /\ UNCHANGED <<health_state, health_log, bus, running_, current_delay, line_buffer,
                   received, crashed>>
    /\ UNCHANGED readerFrame

\* the mutation of FreshLineBuffer that keeps the bytes of the last connection
FreshLineBuffer_Keep == line_buffer

\* std::string line_buffer; declared inside the block of a successful connect
FreshLineBuffer == <<>>

\* after a successful connect: update_feedback_connection(true), a fresh
\* line_buffer, and the backoff reset
ReaderMarkConnected ==
    /\ ~crashed
    /\ rpc = "connected"
    /\ LET r == UpdateFeedbackConnection(health_state, health_log, now, TRUE) IN
         /\ health_state' = r[1]
         /\ health_log' = r[2]
    /\ line_buffer' = FreshLineBuffer
    /\ current_delay' = MIN_DELAY
    /\ rpc' = "recv"
    /\ UNCHANGED <<bus, running_, tcp_socket_, slept, connects, received, crashed>>
    /\ UNCHANGED readerFrame

\* while (running_ && tcp_socket_ >= 0): into recv, or out of the inner loop
ReaderInnerTest ==
    /\ ~crashed
    /\ rpc = "recv"
    /\ rpc' = IF running_ /\ tcp_socket_ >= 0 THEN "in_recv" ELSE "disconnected"
    /\ UNCHANGED <<health_state, health_log, bus, running_, tcp_socket_, current_delay,
                   line_buffer, slept, connects, received, crashed>>
    /\ UNCHANGED readerFrame

\* recv returns -1 with EWOULDBLOCK / EAGAIN: the loop sleeps 10 ms
ReaderRecvTimeout ==
    /\ ~crashed
    /\ rpc = "in_recv"
    /\ rpc' = "recv"
    /\ UNCHANGED <<health_state, health_log, bus, running_, tcp_socket_, current_delay,
                   line_buffer, slept, connects, received, crashed>>
    /\ UNCHANGED readerFrame

\* recv returns bytes_read > 0 and the bytes are processed
ReaderRecvData(buffer, outs, g) ==
    /\ ~crashed
    /\ rpc = "in_recv"
    /\ rpc' = "recv"
    /\ Len(received) < MaxRecords
    /\ Len(line_buffer) + Len(buffer) <= MaxLine + 1
    /\ LET st == ProcessBytes([line_buffer |-> line_buffer, received |-> received,
                               bus |-> bus, crashed |-> FALSE], buffer, 1, outs, g) IN
         /\ Len(st.line_buffer) <= MaxLine
         /\ line_buffer' = st.line_buffer
         /\ received' = st.received
         /\ bus' = st.bus
         /\ crashed' = st.crashed
    /\ UNCHANGED <<health_state, health_log, running_, tcp_socket_, current_delay,
                   slept, connects>>
    /\ UNCHANGED readerFrame

StreamLen == 3       \* bytes the engine writes on one connection
StreamBytes == {"a", NUL}
Streams == UNION {[1..n -> StreamBytes] : n \in 1..StreamLen}

\* what the reader operations leave alone when the bytes come from the wire
streamFrame == <<now, updates, scn, concVars, bundleVars, lockVars, reader_socket, rep,
                 initialized_, available_plugins_, instances_, next_instance, sent, recorded,
                 scanner_calls, parserVars, lifeVars>>

\* the engine writes the bytes `stream` on the feedback connection the reader
\* has just made, once per connection. last keeps the records taken and the
\* events published before, and the line_buffer contents the reader was left
\* with by the connection before.
EngineWrite(stream) ==
    /\ ~crashed
    /\ rpc = "connected"
    /\ last.op = "engine_write" => last.conn < connects
    /\ wire' = stream
    /\ last' = [op |-> "engine_write", status |-> "ok", error |-> "", conn |-> connects,
                stream |-> stream, before |-> received, bus_before |-> bus,
                dropped |-> line_buffer]
    /\ UNCHANGED <<health_state, health_log, bus, running_, tcp_socket_, rpc, current_delay,
                   line_buffer, slept, connects, received, crashed>>
    /\ UNCHANGED streamFrame

\* recv returns the next n bytes of the wire and the bytes are processed
ReaderRecvWire(n, outs, g) ==
    /\ ~crashed
    /\ rpc = "in_recv"
    /\ n \in 1..Len(wire)
    /\ rpc' = "recv"
    /\ LET st == ProcessBytes([line_buffer |-> line_buffer, received |-> received,
                               bus |-> bus, crashed |-> FALSE], SubSeq(wire, 1, n), 1, outs, g) IN
         /\ line_buffer' = st.line_buffer
         /\ received' = st.received
         /\ bus' = st.bus
         /\ crashed' = st.crashed
    /\ wire' = DropPrefix(wire, n)
    /\ UNCHANGED <<health_state, health_log, running_, tcp_socket_, current_delay,
                   slept, connects, last>>
    /\ UNCHANGED streamFrame

\* the inner loop is left from recv: the peer closed (recv returns 0), or recv
\* failed with an error other than EWOULDBLOCK / EAGAIN
ReaderRecvEnd ==
    /\ ~crashed
    /\ rpc = "in_recv"
    /\ rpc' = "disconnected"
    /\ UNCHANGED <<health_state, health_log, bus, running_, tcp_socket_, current_delay,
                   line_buffer, slept, connects, received, crashed>>
    /\ UNCHANGED readerFrame

\* update_feedback_connection(false) after the inner loop
ReaderMarkDisconnected ==
    /\ ~crashed
    /\ rpc = "disconnected"
    /\ LET r == UpdateFeedbackConnection(health_state, health_log, now, FALSE) IN
         /\ health_state' = r[1]
         /\ health_log' = r[2]
    /\ rpc' = "close"
    /\ UNCHANGED <<bus, running_, tcp_socket_, current_delay, line_buffer, slept,
                   connects, received, crashed>>
    /\ UNCHANGED readerFrame

\* close(tcp_socket_); tcp_socket_ = -1
ReaderClose ==
    /\ ~crashed
    /\ rpc = "close"
    /\ tcp_socket_' = -1
    /\ rpc' = "backoff"
    /\ UNCHANGED <<health_state, health_log, bus, running_, current_delay, line_buffer,
                   slept, connects, received, crashed>>
    /\ UNCHANGED readerFrame

\* update_feedback_connection(false) after a failed connect
ReaderMarkFailed ==
    /\ ~crashed
    /\ rpc = "connect_failed"
    /\ LET r == UpdateFeedbackConnection(health_state, health_log, now, FALSE) IN
         /\ health_state' = r[1]
         /\ health_log' = r[2]
    /\ rpc' = "backoff"
    /\ UNCHANGED <<bus, running_, tcp_socket_, current_delay, line_buffer, slept,
                   connects, received, crashed>>
    /\ UNCHANGED readerFrame

\* if (running_) { sleep_for(current_delay); current_delay = min(2 * current_delay, MAX_DELAY) }
ReaderBackoff ==
    /\ ~crashed
    /\ rpc = "backoff"
    /\ IF running_
       THEN /\ slept' = Append(slept, current_delay)
            /\ current_delay' = NextDelay(current_delay)
       ELSE UNCHANGED <<slept, current_delay>>
    /\ rpc' = "loop"
    /\ UNCHANGED <<health_state, health_log, bus, running_, tcp_socket_, line_buffer,
                   connects, received, crashed>>
    /\ UNCHANGED readerFrame

\* FeedbackReader::stop, by the main thread: running_ = false
ReaderStop ==
    /\ ~crashed
    /\ running_
    /\ running_' = FALSE
    /\ UNCHANGED <<health_state, health_log, bus, tcp_socket_, rpc, current_delay,
                   line_buffer, slept, connects, received, crashed>>
    /\ UNCHANGED readerFrame

\* FeedbackReader::stop once the thread is joined: the socket is closed if
\* it is still open
ReaderJoin ==
    /\ ~crashed
    /\ ~running_
    /\ rpc = "done"
    /\ rpc' = "joined"
    /\ tcp_socket_' = -1
    /\ UNCHANGED <<health_state, health_log, bus, running_, current_delay, line_buffer,
                   slept, connects, received, crashed>>
    /\ UNCHANGED readerFrame

\* the registry operations keyed by a plugin URI that go to the plugin
\* scanner (the discovery adapter)
UriOps == {"get_plugin_presets", "load_preset", "save_preset", "validate_preset",
           "rescan_presets", "get_plugin_gui", "get_plugin_gui_mini",
           "get_plugin_essentials"}

\* the PluginScanner method each of them calls
ScannerMethod(op) ==
    CASE op = "get_plugin_presets" -> "get_plugin_presets"
      [] op = "load_preset" -> "load_preset"
      [] op = "save_preset" -> "save_preset"
      [] op = "validate_preset" -> "is_preset_valid"
      [] op = "rescan_presets" -> "rescan_presets"
      [] op = "get_plugin_gui" -> "get_plugin_gui"
      [] op = "get_plugin_gui_mini" -> "get_plugin_gui_mini"
      [] op = "get_plugin_essentials" -> "get_plugin_essentials"

\* the operations that throw when the scanner gives nothing back
FailsOnEmptyResult == {"load_preset", "save_preset"}

MaxScannerCalls == 2

\* one that asks the scanner before it looks the URI up
UriOpCallsScanner_BeforeLookup(op, uri) == TRUE

\* whether the operation reaches the scanner: the catalog lookup comes first
UriOpCallsScanner(op, uri) == uri \in available_plugins_

\* process_get_plugin_presets .. process_get_plugin_essentials: plugin_scanner_
\* is set by initialize(); the URI is looked up in available_plugins_; then
\* the scanner is called, found tells whether it gave a result
UriOp(op, uri, found) ==
    /\ initialized_
    /\ Len(scanner_calls) < MaxScannerCalls
    /\ scanner_calls' = IF UriOpCallsScanner(op, uri)
                        THEN Append(scanner_calls, [method |-> ScannerMethod(op), uri |-> uri])
                        ELSE scanner_calls
    /\ last' = IF uri \notin available_plugins_
               THEN [op |-> op, status |-> "error", error |-> "PluginNotFound"]
               ELSE IF op \in FailsOnEmptyResult /\ ~found
               THEN [op |-> op, status |-> "error", error |-> "AdapterError"]
               ELSE [op |-> op, status |-> "ok", error |-> ""]
    /\ UNCHANGED <<instances_, bus, sent, health_state, health_log, next_instance,
                   recorded, now, updates, scn, concVars, sharedVars, initialized_,
                   available_plugins_, readerVars, parserVars, lifeVars>>

\* The registry is initialized after wait_for_modhost has found both ports:
\* update_command_connection(true), then update_feedback_connection(true).
HealthAfterWait ==
    LET a == UpdateCommandConnection(HealthStateInit(0), <<>>, 0, TRUE)
    IN  UpdateFeedbackConnection(a[1], a[2], 0, TRUE)

-----------------------------------------------------------------------------
(* The catalog: scan, validation, rescan, search (plugins/plugin_manager.cpp, *)
(* plugin_validator.cpp, plugin_search_engine.cpp). Names are sequences of   *)
(* characters; port ranges are whole numbers.                                *)

UpperChars == <<"A", "B", "C", "D", "E", "F", "G", "H", "I", "J", "K", "L", "M">>
                 \o <<"N", "O", "P", "Q", "R", "S", "T", "U", "V", "W", "X", "Y", "Z">>
LowerChars == <<"a", "b", "c", "d", "e", "f", "g", "h", "i", "j", "k", "l", "m">>
                 \o <<"n", "o", "p", "q", "r", "s", "t", "u", "v", "w", "x", "y", "z">>

\* ::tolower on one character
ToLowerChar(c) ==
    IF \E i \in DOMAIN UpperChars : UpperChars[i] = c
    THEN LowerChars[CHOOSE i \in DOMAIN UpperChars : UpperChars[i] = c]
    ELSE c

\* PluginSearchEngine::toLower
ToLower(str) == [i \in DOMAIN str |-> ToLowerChar(str[i])]

\* haystack.find(needle) != std::string::npos
Contains(haystack, needle) == Find(haystack, needle) # 0

\* a PluginPort of the control kind
Port(symbol, min_value, max_value) ==
    [symbol |-> symbol, min_value |-> min_value, max_value |-> max_value]

\* the plugins the scanner can report
ValidUris == {"A_uri", "B_uri", "C_uri", "H_uri"}
RejectedUris == {"D_uri", "E_uri", "F_uri", "G_uri"}
ScanUris == ValidUris \cup RejectedUris

\* PluginScanner::get_plugin_info(uri): the PluginInfo of each of them.
\* A, B, C are a reverb 2/2, a delay 1/1 and a distortion 2/2; D has no audio
\* port, E nine audio inputs, F nine audio outputs, G a control output with
\* min > max; H is a generator (0/2) with a control range beyond 1e6.
PluginInfoOf(uri) ==
    CASE uri = "A_uri" ->
            [uri |-> uri, uri_text |-> <<"u", "r", "n", ":", "a">>, name |-> <<"H", "a", "l", "l">>,
             category |-> <<<<"R", "e", "v", "e", "r", "b">>>>, author |-> <<"A", "n", "n">>,
             audio_inputs |-> 2, audio_outputs |-> 2,
             control_inputs |-> <<Port(<<"g", "a", "i", "n">>, 0, 10)>>, control_outputs |-> <<>>]
      [] uri = "B_uri" ->
            [uri |-> uri, uri_text |-> <<"u", "r", "n", ":", "b">>, name |-> <<"E", "c", "h", "o">>,
             category |-> <<<<"D", "e", "l", "a", "y">>>>, author |-> <<"B", "o", "b">>,
             audio_inputs |-> 1, audio_outputs |-> 1,
             control_inputs |-> <<Port(<<"t", "i", "m", "e">>, 0, 10)>>, control_outputs |-> <<>>]
      [] uri = "C_uri" ->
            [uri |-> uri, uri_text |-> <<"u", "r", "n", ":", "c">>, name |-> <<"F", "u", "z", "z">>,
             category |-> <<<<"D", "i", "s", "t", "o", "r", "t", "i", "o", "n">>>>, author |-> <<"A", "n", "n">>,
             audio_inputs |-> 2, audio_outputs |-> 2,
             control_inputs |-> <<>>, control_outputs |-> <<>>]
      [] uri = "D_uri" ->
            [uri |-> uri, uri_text |-> <<"u", "r", "n", ":", "d">>, name |-> <<"M", "i", "d", "i">>,
             category |-> <<>>, author |-> <<"B", "o", "b">>,
             audio_inputs |-> 0, audio_outputs |-> 0,
             control_inputs |-> <<>>, control_outputs |-> <<>>]
      [] uri = "E_uri" ->
            [uri |-> uri, uri_text |-> <<"u", "r", "n", ":", "e">>, name |-> <<"M", "i", "x">>,
             category |-> <<>>, author |-> <<"B", "o", "b">>,
             audio_inputs |-> 9, audio_outputs |-> 1,
             control_inputs |-> <<>>, control_outputs |-> <<>>]
      [] uri = "F_uri" ->
            [uri |-> uri, uri_text |-> <<"u", "r", "n", ":", "f">>, name |-> <<"S", "p", "l", "i", "t">>,
             category |-> <<>>, author |-> <<"B", "o", "b">>,
             audio_inputs |-> 1, audio_outputs |-> 9,
             control_inputs |-> <<>>, control_outputs |-> <<>>]
      [] uri = "G_uri" ->
            [uri |-> uri, uri_text |-> <<"u", "r", "n", ":", "g">>, name |-> <<"M", "e", "t", "e", "r">>,
             category |-> <<>>, author |-> <<"B", "o", "b">>,
             audio_inputs |-> 1, audio_outputs |-> 1,
             control_inputs |-> <<>>, control_outputs |-> <<Port(<<"l", "e", "v", "e", "l">>, 5, 1)>>]
      [] uri = "H_uri" ->
            [uri |-> uri, uri_text |-> <<"u", "r", "n", ":", "h">>, name |-> <<"T", "o", "n", "e">>,
             category |-> <<<<"G", "e", "n", "e", "r", "a", "t", "o", "r">>>>, author |-> <<"C", "y">>,
             audio_inputs |-> 0, audio_outputs |-> 2,
             control_inputs |-> <<Port(<<"f", "r", "e", "q">>, -2000000, 2000000)>>,
             control_outputs |-> <<>>]

\* PluginValidator::isKnownIncompatible: the static list is empty
IncompatiblePlugins == {}
IsKnownIncompatible(uri) == uri \in IncompatiblePlugins

\* PluginValidator::checkLv2Features
CheckLv2Features(plugin) == TRUE

max_audio_ports == 8

\* the mutation of CheckAudioPorts that takes a plugin without audio ports
CheckAudioPorts_NoAudio(plugin) ==
    /\ plugin.audio_inputs <= max_audio_ports
    /\ plugin.audio_outputs <= max_audio_ports

\* PluginValidator::checkAudioPorts
CheckAudioPorts(plugin) ==
    /\ plugin.audio_inputs <= max_audio_ports
    /\ plugin.audio_outputs <= max_audio_ports
    /\ ~(plugin.audio_inputs = 0 /\ plugin.audio_outputs = 0)

\* PluginValidator::checkControlPorts: a range beyond 1e6 is only logged
CheckControlPorts(plugin) ==
    /\ \A i \in DOMAIN plugin.control_inputs :
          ~(plugin.control_inputs[i].min_value > plugin.control_inputs[i].max_value)
    /\ \A i \in DOMAIN plugin.control_outputs :
          ~(plugin.control_outputs[i].min_value > plugin.control_outputs[i].max_value)

\* PluginValidator::validatePlugin: ValidationResult::is_valid
ValidatePlugin(plugin) ==
    /\ ~IsKnownIncompatible(plugin.uri)
    /\ CheckLv2Features(plugin)
    /\ CheckAudioPorts(plugin)
    /\ CheckControlPorts(plugin)

\* what scan_plugins can return: any of the plugins that pass, with or
\* without those that do not
Scans == {v \cup r : v \in SUBSET ValidUris, r \in {{}, RejectedUris}}
\* the plugins get_plugin_info can have no detailed info for
NoInfo == {{}, {"A_uri"}}

\* load_available_plugins and the body of rescan_plugins: the URIs scanned,
\* those with detailed info, those that pass validatePlugin
ScanCatalog(scan, missing) == {uri \in scan \ missing : ValidatePlugin(PluginInfoOf(uri))}

MaxRescans == 2

catalogFrame == <<health_state, health_log, now, updates, scn, concVars, sharedVars, initialized_,
                  instances_, next_instance, sent, recorded, scanner_calls, readerVars,
                  parserVars, lifeVars>>

\* the mutation of RescanPlugins that replaces the catalog before the scanner
\* has delivered everything, so that a throw leaves a partial catalog
RescanPlugins_PartialOnThrow(catalog, events, socket_open, scan, missing, threw) ==
    LET validated == ScanCatalog(scan, missing) IN
      IF threw THEN [catalog |-> catalog \cap validated, bus |-> events]
      ELSE [catalog |-> validated,
            bus |-> PublishEvent(events, socket_open,
                                 [type |-> "plugins_rescanned",
                                  plugin_count |-> Cardinality(validated)])]

\* the mutation of RescanPlugins that publishes the size of the scan
RescanPlugins_CountsScan(catalog, events, socket_open, scan, missing, threw) ==
    LET validated == ScanCatalog(scan, missing) IN
      IF threw THEN [catalog |-> catalog, bus |-> events]
      ELSE [catalog |-> validated,
            bus |-> PublishEvent(events, socket_open,
                                 [type |-> "plugins_rescanned",
                                  plugin_count |-> Cardinality(scan)])]

\* rescan_plugins. `threw`: scan_plugins or get_plugin_info threw, which the
\* function catches before it has assigned available_plugins_, leaving the
\* catalog as it was and publishing nothing.
RescanPlugins(catalog, events, socket_open, scan, missing, threw) ==
    LET validated == ScanCatalog(scan, missing) IN
      IF threw THEN [catalog |-> catalog, bus |-> events]
      ELSE [catalog |-> validated,
            bus |-> PublishEvent(events, socket_open,
                                 [type |-> "plugins_rescanned",
                                  plugin_count |-> Cardinality(validated)])]

\* process_rescan_plugins
ProcessRescanPlugins(scan, missing, threw) ==
    /\ initialized_
    /\ Len(bus) < MaxRescans
    /\ LET old_count == Cardinality(available_plugins_)
           r == RescanPlugins(available_plugins_, bus, initialized_, scan, missing, threw)
           new_count == Cardinality(r.catalog)
       IN  /\ available_plugins_' = r.catalog
           /\ bus' = r.bus
           /\ last' = [op |-> "rescan_plugins", status |-> "ok", error |-> "",
                       plugins_added |-> new_count - old_count,
                       plugins_removed |-> old_count - new_count,
                       scan |-> scan, missing |-> missing, threw |-> threw]
    /\ UNCHANGED catalogFrame

MaxPolls == 3        \* calls of checkForChanges

\* what the bundle monitor operations leave alone
bundleFrame == <<health_state, health_log, now, updates, scn, concVars, lockVars, reader_socket, wire, rep,
                 initialized_, instances_, next_instance, sent, recorded, scanner_calls,
                 readerVars, parserVars, lifeVars>>

\* a bundle directory is added, removed, or its manifest.ttl is written or
\* deleted, by whoever installs plugins
FsChange(d, entry) ==
    /\ fs[d] # entry
    /\ fs' = [fs EXCEPT ![d] = entry]
    /\ UNCHANGED <<bundle_states_, is_monitoring_, available_plugins_, bus, last>>
    /\ UNCHANGED bundleFrame

\* PluginBundleMonitor::checkForChanges, with the callback PluginManager::
\* initialize gave the monitor: rescan_plugins, called without mutex_.
\* last.seen is the directory as the previous poll (or startMonitoring) saw it.
CheckForChanges(scan, missing, threw) ==
    /\ initialized_
    /\ is_monitoring_
    /\ last.polls < MaxPolls
    /\ LET has_changes == HasChanges(bundle_states_, fs)
           r == IF has_changes
                THEN RescanPlugins(available_plugins_, bus, initialized_, scan, missing, threw)
                ELSE [catalog |-> available_plugins_, bus |-> bus]
       IN  /\ bundle_states_' = StatesAfterCheck(bundle_states_, fs)
           /\ available_plugins_' = r.catalog
           /\ bus' = r.bus
           /\ last' = [op |-> "check_for_changes", status |-> "ok", error |-> "",
                       polls |-> last.polls + 1, seen |-> fs,
                       has_changes |-> has_changes,
                       callbacks |-> IF has_changes THEN 1 ELSE 0,
                       threw |-> has_changes /\ threw]
    /\ UNCHANGED <<fs, is_monitoring_>>
    /\ UNCHANGED bundleFrame

\* the keys of the criteria object of a search_plugins request
CriteriaKeys == {"category", "author", "min_audio_inputs", "min_audio_outputs",
                 "max_audio_inputs", "max_audio_outputs", "has_parameter"}
MaxCriteria == 2

\* the criteria objects of the model: up to MaxCriteria members; the value of
\* a member that is absent is not read
CriteriaObjects ==
    {[members |-> m, category |-> c, author |-> <<"a", "n", "n">>,
      min_audio_inputs |-> 2, min_audio_outputs |-> 0, max_audio_inputs |-> 1,
      max_audio_outputs |-> 1, has_parameter |-> <<"G", "A", "I", "N">>] :
        m \in {k \in SUBSET CriteriaKeys : Cardinality(k) <= MaxCriteria},
        c \in {<<"r", "e", "v">>, <<"D", "I", "S", "T">>}}
\* a request without a criteria object
NoCriteria == [members |-> {"<none>"}]
Queries == {<<>>, <<"E", "C", "H", "O">>, <<"a", "n", "n">>, <<"u", "r", "n", ":">>}

\* process_plugin_command, search_plugins: the PluginSearchCriteria built
\* from the criteria object; a member that is absent keeps its default
CriteriaFromJson(obj) ==
    [category |-> IF "category" \in obj.members THEN obj.category ELSE <<>>,
     author |-> IF "author" \in obj.members THEN obj.author ELSE <<>>,
     min_audio_inputs |-> IF "min_audio_inputs" \in obj.members
                          THEN obj.min_audio_inputs ELSE -1,
     min_audio_outputs |-> IF "min_audio_outputs" \in obj.members
                           THEN obj.min_audio_outputs ELSE -1,
     max_audio_inputs |-> IF "max_audio_inputs" \in obj.members
                          THEN obj.max_audio_inputs ELSE -1,
     max_audio_outputs |-> IF "max_audio_outputs" \in obj.members
                           THEN obj.max_audio_outputs ELSE -1,
     has_parameter |-> IF "has_parameter" \in obj.members THEN obj.has_parameter ELSE <<>>]

\* PluginSearchEngine::matchesCriteria (has_parameter is not read)
MatchesCriteria(plugin, criteria) ==
    /\ criteria.category # <<>> =>
          \E i \in DOMAIN plugin.category :
             Contains(ToLower(plugin.category[i]), ToLower(criteria.category))
    /\ ~(criteria.author # <<>> /\ ~Contains(ToLower(plugin.author), ToLower(criteria.author)))
    /\ ~(criteria.min_audio_inputs > 0 /\ plugin.audio_inputs < criteria.min_audio_inputs)
    /\ ~(criteria.min_audio_outputs > 0 /\ plugin.audio_outputs < criteria.min_audio_outputs)
    /\ ~(criteria.max_audio_inputs >= 0 /\ plugin.audio_inputs > criteria.max_audio_inputs)
    /\ ~(criteria.max_audio_outputs >= 0 /\ plugin.audio_outputs > criteria.max_audio_outputs)

\* PluginSearchEngine::filterPlugins (the URIs of the results, in no order)
FilterPlugins(criteria, plugins) ==
    {uri \in plugins : MatchesCriteria(PluginInfoOf(uri), criteria)}

\* PluginSearchEngine::matchesQuery, with the query already in lower case
MatchesQuery(plugin, query) ==
    Contains(ToLower(plugin.name \o <<" ">> \o plugin.author \o <<" ">> \o <<>> \o <<" ">>
                     \o plugin.uri_text), query)

\* PluginSearchEngine::searchByText
SearchByText(query, plugins) ==
    IF query = <<>> THEN plugins
    ELSE {uri \in plugins : MatchesQuery(PluginInfoOf(uri), ToLower(query))}

\* the mutation of SearchResults in which a query comes before the criteria
SearchResults_QueryFirst(query, obj, plugins) ==
    IF query # <<>> THEN SearchByText(query, plugins)
    ELSE IF obj # NoCriteria THEN FilterPlugins(CriteriaFromJson(obj), plugins)
    ELSE plugins

\* process_search_plugins: SearchPluginsResponse::plugins
SearchResults(query, obj, plugins) ==
    IF obj # NoCriteria THEN FilterPlugins(CriteriaFromJson(obj), plugins)
    ELSE IF query # <<>> THEN SearchByText(query, plugins)
    ELSE plugins

\* a search_plugins request
SearchPlugins(query, obj) ==
    /\ initialized_
    /\ last' = [op |-> "search_plugins", status |-> "ok", error |-> "",
                query |-> query, criteria |-> obj,
                plugins |-> SearchResults(query, obj, available_plugins_)]
    /\ UNCHANGED <<available_plugins_, bus>>
    /\ UNCHANGED catalogFrame

-----------------------------------------------------------------------------
(* The command service (command_service.cpp): the thread of service_loop on  *)
(* the REP socket, and the requests it serves.                               *)

\* send_to_modhost calls over a run, and what a call can meet
MaxSends == 4
AllOutcomes == {Nullopt(k) : k \in NulloptKinds} \cup {RespZero}

\* commands written to the engine over a run of SpecService
MaxRequests == 2

\* a JSON object as a reply body
ErrorReply(text) == [json |-> "object", error |-> text]

\* a request body: text that Json::Reader::parse rejects, or an object with
\* the members named in `members` (the value of an absent member is not read)
RequestObject(members, action, method, command, name, args) ==
    [json |-> "object", members |-> members, action |-> action, method |-> method,
     command |-> command, name |-> name, args |-> args]
NotJson == [json |-> "invalid", members |-> {}, action |-> "", method |-> "",
            command |-> <<>>, name |-> <<>>, args |-> <<>>]

RequestBodies ==
    {NotJson,
     RequestObject({"command"}, "", "", <<"cpu_load">>, <<>>, <<>>),
     RequestObject({"name", "args"}, "", "", <<>>, <<"param_get">>, << <<"0">>, <<"gain">> >>),
     RequestObject({"action", "command"}, "health", "", <<"cpu_load">>, <<>>, <<>>),
     RequestObject({"name"}, "", "", <<>>, <<"param_get">>, <<>>),
     RequestObject({}, "", "", <<>>, <<>>, <<>>),
     RequestObject({"action"}, "plugin", "", <<>>, <<>>, <<>>),
     RequestObject({"action", "method"}, "plugin", "bogus", <<>>, <<>>, <<>>),
     RequestObject({"action", "method"}, "plugin", "list_instances", <<>>, <<>>, <<>>)}

\* Json::Reader::parse(json_str, json_req)
ParsesAsJson(request) == request.json # "invalid"

\* json_req.isMember("action") && json_req["action"].asString() == "plugin"
IsPluginCommand(request) == "action" \in request.members /\ request.action = "plugin"

\* the legacy forms: {command} or {name, args}
IsLegacyCommand(request) ==
    "command" \in request.members \/ {"name", "args"} \subseteq request.members

\* process_command: the command string of a RawCommand or a StructuredCommand
RECURSIVE AppendArgs(_, _)
AppendArgs(command, args) ==
    IF args = <<>> THEN command
    ELSE AppendArgs(command \o <<" ">> \o Head(args), Tail(args))

CommandString(request) ==
    IF "command" \in request.members THEN request.command
    ELSE AppendArgs(request.name, request.args)

\* to_json(CommandResponse) of what process_command builds from the result of
\* send_to_modhost
ProcessCommandResult(o) ==
    IF HasValue(o) THEN [json |-> "object", status |-> o.body, raw |-> o.body]
    ELSE ErrorReply("Failed to communicate with mod-host")

\* the methods of process_plugin_command followed here
PluginMethods == {"list_instances"}

\* process_plugin_command, for the requests of RequestBodies
ProcessPluginCommand(request, instances) ==
    IF "method" \notin request.members
    THEN ErrorReply("Plugin command failed: Plugin command missing 'method' field")
    ELSE IF request.method \in PluginMethods
    THEN [json |-> "object", instances |-> DOMAIN instances]
    ELSE ErrorReply("Plugin command failed: Unknown command method: " \o request.method)

\* the mutation of InvalidRequestFormat that answers with an empty value
InvalidRequestFormat_Null == JsonNull

\* the reply of the catch clause of service_loop
InvalidRequestFormat == ErrorReply("Invalid request format")

\* what service_loop writes back for a request. In the legacy branch the
\* value of process_command initializes a json_resp declared in that block;
\* the json_resp that is serialized is the one of the enclosing block, which
\* nothing assigned.
ServiceReply(request, instances) ==
    IF ~ParsesAsJson(request) THEN InvalidRequestFormat
    ELSE IF IsPluginCommand(request) THEN ProcessPluginCommand(request, instances)
    ELSE IF IsLegacyCommand(request) THEN JsonNull
    ELSE InvalidRequestFormat

\* whether service_loop reaches process_command, and so send_to_modhost
CallsProcessCommand(request) ==
    ParsesAsJson(request) /\ ~IsPluginCommand(request) /\ IsLegacyCommand(request)

serviceFrame == <<now, updates, scn, concVars, sharedVars, initialized_, available_plugins_, instances_,
                  next_instance, bus, recorded, scanner_calls, readerVars, parserVars>>

\* CommandService::start
CsStart ==
    /\ ~cs_running_
    /\ cs_pc = "idle"
    /\ cs_running_' = TRUE
    /\ cs_pc' = "loop"
    /\ started' = Append(started, "command_service")
    /\ UNCHANGED <<health_state, health_log, sent, last, hm_running_, hm_pc,
                   shutdown_requested, main_pc, exit_code>>
    /\ UNCHANGED serviceFrame

\* service_loop: while (running_), at the first turn, after a reply and after
\* the sleep that follows a receive without request
CsLoopTest ==
    /\ cs_pc \in {"loop", "sleep"}
    /\ cs_pc' = IF cs_running_ THEN "recv" ELSE "done"
    /\ UNCHANGED <<health_state, health_log, sent, last, cs_running_, hm_running_, hm_pc,
                   mainVars>>
    /\ UNCHANGED serviceFrame

\* recv returns nothing within its 100 ms (the loop sleeps 10 ms), or throws
\* (the loop sleeps 500 ms)
CsRecvTimeout ==
    /\ cs_pc = "recv"
    /\ cs_pc' = "sleep"
    /\ UNCHANGED <<health_state, health_log, sent, last, cs_running_, hm_running_, hm_pc,
                   mainVars>>
    /\ UNCHANGED serviceFrame

\* one turn of service_loop in which recv returned `request`; o is what
\* send_to_modhost meets if it is called
ServiceRequest(request, o) ==
    /\ cs_pc = "recv"
    /\ IF CallsProcessCommand(request)
       THEN /\ Len(sent) < MaxRequests
            /\ sent' = Append(sent, Command("raw", <<>>, CommandString(request)))
            /\ LET hs == SendToModhost(<<health_state, health_log>>, now, o) IN
                 /\ health_state' = hs[1]
                 /\ health_log' = hs[2]
       ELSE UNCHANGED <<sent, health_state, health_log>>
    /\ last' = [op |-> "service_request", status |-> "ok", error |-> "",
                request |-> request, outcome |-> o,
                returned |-> IF CallsProcessCommand(request) THEN ProcessCommandResult(o)
                             ELSE JsonNull,
                reply |-> ServiceReply(request, instances_)]
    /\ cs_pc' = "loop"
    /\ UNCHANGED <<cs_running_, hm_running_, hm_pc, mainVars>>
    /\ UNCHANGED serviceFrame

\* CommandService::stop: running_ = false
CsStop ==
    /\ cs_running_
    /\ cs_running_' = FALSE
    /\ UNCHANGED <<health_state, health_log, sent, last, cs_pc, hm_running_, hm_pc, mainVars>>
    /\ UNCHANGED serviceFrame

\* CommandService::stop: service_thread_.join() returns
CsJoin ==
    /\ ~cs_running_
    /\ cs_pc = "done"
    /\ cs_pc' = "joined"
    /\ UNCHANGED <<health_state, health_log, sent, last, cs_running_, hm_running_, hm_pc,
                   mainVars>>
    /\ UNCHANGED serviceFrame

\* requests received on one REP socket over a run of SpecReply
MaxExchanges == 2

replyFrame == <<now, updates, scn, concVars, sharedCore, initialized_, available_plugins_,
                instances_, next_instance, bus, recorded, scanner_calls, readerVars, parserVars>>

\* whether the try block of service_loop throws before its send
ServiceThrows(request) ==
    ~ParsesAsJson(request) \/ (~IsPluginCommand(request) /\ ~IsLegacyCommand(request))

\* the mutation of CsAfterTry in which a request that makes the try block
\* throw gets no reply
CsAfterTry_NoReplyOnError(request) == IF ServiceThrows(request) THEN "loop" ELSE "send"

\* where service_loop goes once the request is processed: to the send of the
\* try block, or into the catch clause
CsAfterTry(request) == IF ServiceThrows(request) THEN "catch" ELSE "send"

\* service_loop: recv returned `request`, and it is parsed and processed up
\* to the send; o is what send_to_modhost meets if it is called
CsReceive(request, o) ==
    /\ cs_pc = "recv"
    /\ ~rep["rep_socket_"].owed
    /\ Len(rep["rep_socket_"].log) < MaxExchanges + MaxExchanges
    /\ IF CallsProcessCommand(request)
       THEN /\ Len(sent) < MaxRequests
            /\ sent' = Append(sent, Command("raw", <<>>, CommandString(request)))
            /\ LET hs == SendToModhost(<<health_state, health_log>>, now, o) IN
                 /\ health_state' = hs[1]
                 /\ health_log' = hs[2]
       ELSE UNCHANGED <<sent, health_state, health_log>>
    /\ rep' = [rep EXCEPT !["rep_socket_"] = RepRecv(@)]
    /\ cs_pc' = CsAfterTry(request)
    /\ UNCHANGED <<last, cs_running_, hm_running_, hm_pc, mainVars>>
    /\ UNCHANGED replyFrame

\* service_loop: the send that ends the try block; a throw leads into the
\* catch clause
CsSendReply(throws) ==
    /\ cs_pc = "send"
    /\ rep' = [rep EXCEPT !["rep_socket_"] = RepSend(@, "try", throws)]
    /\ cs_pc' = IF throws THEN "catch" ELSE "loop"
    /\ UNCHANGED <<health_state, health_log, sent, last, cs_running_, hm_running_, hm_pc,
                   mainVars>>
    /\ UNCHANGED replyFrame

\* service_loop: the send of the catch clause; a throw leads into the outer
\* catch clause, which sleeps 500 ms
CsSendError(throws) ==
    /\ cs_pc = "catch"
    /\ rep' = [rep EXCEPT !["rep_socket_"] = RepSend(@, "catch", throws)]
    /\ cs_pc' = IF throws THEN "sleep" ELSE "loop"
    /\ UNCHANGED <<health_state, health_log, sent, last, cs_running_, hm_running_, hm_pc,
                   mainVars>>
    /\ UNCHANGED replyFrame

-----------------------------------------------------------------------------
(* The health monitor (core/health_monitor.cpp): the thread of monitor_loop  *)
(* on the health REP socket.                                                 *)

\* to_json(HealthStatus)
HealthStatusToJson(status) ==
    CASE status = "Starting" -> "starting"
      [] status = "Healthy" -> "healthy"
      [] status = "Degraded" -> "degraded"
      [] status = "Unhealthy" -> "unhealthy"
      [] OTHER -> "unknown"

\* the mutation of GetHealthResponse that reports the flags only
GetHealthResponse_NoStatus(h) ==
    [status |-> "Starting",
     message |-> "Service is starting up, waiting for mod-host connections",
     command_connected |-> h.command_connected,
     feedback_connected |-> h.feedback_connected]

\* HealthState::get_health_response
GetHealthResponse(h) ==
    [status |-> h.status,
     message |->
        CASE h.status = "Starting" ->
                "Service is starting up, waiting for mod-host connections"
          [] h.status = "Healthy" -> "Service is healthy, all connections established"
          [] h.status = "Degraded" ->
                "Service is degraded, command connection available but feedback connection lost"
          [] h.status = "Unhealthy" -> "Service is unhealthy, cannot connect to mod-host",
     command_connected |-> h.command_connected,
     feedback_connected |-> h.feedback_connected]

\* to_json(HealthResponse)
HealthResponseToJson(response) ==
    [json |-> "object",
     status |-> HealthStatusToJson(response.status),
     message |-> response.message,
     command_connected |-> response.command_connected,
     feedback_connected |-> response.feedback_connected]

\* the bodies received on the health socket
HealthBodies ==
    {NotJson,
     RequestObject({"action"}, "health", "", <<>>, <<>>, <<>>),
     RequestObject({"action", "method"}, "health", "bogus", <<>>, <<>>, <<>>),
     RequestObject({"action"}, "status", "", <<>>, <<>>, <<>>),
     RequestObject({"command"}, "", "", <<"cpu_load">>, <<>>, <<>>),
     RequestObject({}, "", "", <<>>, <<>>, <<>>)}

\* json_req.isMember("action") && json_req["action"].asString() == "health"
IsHealthRequest(request) == "action" \in request.members /\ request.action = "health"

\* what monitor_loop writes back for a request
HealthReply(request, h) ==
    IF ~ParsesAsJson(request) THEN ErrorReply("Invalid JSON format")
    ELSE IF IsHealthRequest(request) THEN HealthResponseToJson(GetHealthResponse(h))
    ELSE ErrorReply("Invalid health request format")

monitorFrame == <<healthVars, concVars, sharedVars, initialized_, available_plugins_, instances_,
                  next_instance, bus, sent, recorded, scanner_calls, readerVars, parserVars,
                  cs_running_, cs_pc>>

\* HealthMonitor::start
HmStart ==
    /\ ~hm_running_
    /\ hm_pc = "idle"
    /\ hm_running_' = TRUE
    /\ hm_pc' = "loop"
    /\ started' = Append(started, "health_monitor")
    /\ UNCHANGED <<last, shutdown_requested, main_pc, exit_code>>
    /\ UNCHANGED monitorFrame

\* monitor_loop: while (running_), at the first turn, after a reply and after
\* the sleep that follows a receive without request
HmLoopTest ==
    /\ hm_pc \in {"loop", "sleep"}
    /\ hm_pc' = IF hm_running_ THEN "recv" ELSE "done"
    /\ UNCHANGED <<last, hm_running_, mainVars>>
    /\ UNCHANGED monitorFrame

\* recv returns nothing within its 100 ms (the loop sleeps 10 ms), or throws
\* (the loop sleeps 500 ms)
HmRecvTimeout ==
    /\ hm_pc = "recv"
    /\ hm_pc' = "sleep"
    /\ UNCHANGED <<last, hm_running_, mainVars>>
    /\ UNCHANGED monitorFrame

\* one turn of monitor_loop in which recv returned `request`
HealthRequest(request) ==
    /\ hm_pc = "recv"
    /\ last' = [op |-> "health_request", status |-> "ok", error |-> "",
                request |-> request, reply |-> HealthReply(request, health_state)]
    /\ hm_pc' = "loop"
    /\ UNCHANGED <<hm_running_, mainVars>>
    /\ UNCHANGED monitorFrame

healthReplyFrame == <<healthVars, concVars, sharedCore, initialized_, available_plugins_,
                      instances_, next_instance, bus, sent, recorded, scanner_calls,
                      readerVars, parserVars, cs_running_, cs_pc>>

\* monitor_loop: recv returned `request`, and it is parsed up to the send of
\* the try block or to the throw
HmReceive(request) ==
    /\ hm_pc = "recv"
    /\ ~rep["health_socket_"].owed
    /\ Len(rep["health_socket_"].log) < MaxExchanges + MaxExchanges
    /\ rep' = [rep EXCEPT !["health_socket_"] = RepRecv(@)]
    /\ hm_pc' = IF ParsesAsJson(request) THEN "send" ELSE "catch"
    /\ UNCHANGED <<last, hm_running_, mainVars>>
    /\ UNCHANGED healthReplyFrame

\* monitor_loop: the send of the try block, of the health response or of the
\* error for a request that is not a health request
HmSendReply(throws) ==
    /\ hm_pc = "send"
    /\ rep' = [rep EXCEPT !["health_socket_"] = RepSend(@, "try", throws)]
    /\ hm_pc' = IF throws THEN "catch" ELSE "loop"
    /\ UNCHANGED <<last, hm_running_, mainVars>>
    /\ UNCHANGED healthReplyFrame

\* monitor_loop: the send of the catch clause
HmSendError(throws) ==
    /\ hm_pc = "catch"
    /\ rep' = [rep EXCEPT !["health_socket_"] = RepSend(@, "catch", throws)]
    /\ hm_pc' = IF throws THEN "sleep" ELSE "loop"
    /\ UNCHANGED <<last, hm_running_, mainVars>>
    /\ UNCHANGED healthReplyFrame

\* HealthMonitor::stop: running_ = false
HmStop ==
    /\ hm_running_
    /\ hm_running_' = FALSE
    /\ UNCHANGED <<last, hm_pc, mainVars>>
    /\ UNCHANGED monitorFrame

\* HealthMonitor::stop: monitor_thread_.join() returns
HmJoin ==
    /\ ~hm_running_
    /\ hm_pc = "done"
    /\ hm_pc' = "joined"
    /\ UNCHANGED <<last, hm_running_, mainVars>>
    /\ UNCHANGED monitorFrame

-----------------------------------------------------------------------------
(* main (core/main.cpp): startup, the wait for the engine, the services,     *)
(* shutdown.                                                                 *)

\* what main never writes
mainCore == <<now, updates, scn, concVars, lockVars, fs, wire, rep, next_instance, recorded, last,
              scanner_calls, parserVars, line_buffer, slept, connects, received>>
mainFrame == <<mainCore, bundle_states_, is_monitoring_, reader_socket>>

\* signal_handler, on SIGINT or SIGTERM, at any point of main
SignalHandler ==
    /\ ~crashed
    /\ main_pc \notin {"idle", "exited"}
    /\ ~shutdown_requested
    /\ shutdown_requested' = TRUE
    /\ UNCHANGED <<health_state, health_log, initialized_, available_plugins_, instances_,
                   bus, sent, running_, tcp_socket_, rpc, current_delay, crashed, main_pc,
                   exit_code, started, cs_running_, cs_pc, hm_running_, hm_pc>>
    /\ UNCHANGED mainFrame

\* health_monitor.start(), before the wait for the engine
MainStartHealth ==
    /\ ~crashed
    /\ main_pc = "start"
    /\ hm_running_' = TRUE
    /\ hm_pc' = "loop"
    /\ started' = Append(started, "health_monitor")
    /\ main_pc' = "wait_test"
    /\ UNCHANGED <<health_state, health_log, initialized_, available_plugins_, instances_,
                   bus, sent, running_, tcp_socket_, rpc, current_delay, crashed,
                   shutdown_requested, exit_code, cs_running_, cs_pc>>
    /\ UNCHANGED mainFrame

\* wait_for_modhost: while (!shutdown_requested); false is returned when the
\* flag is seen
MainWaitTest ==
    /\ ~crashed
    /\ main_pc = "wait_test"
    /\ main_pc' = IF shutdown_requested THEN "stop_health_fail" ELSE "probe_command"
    /\ UNCHANGED <<health_state, health_log, initialized_, available_plugins_, instances_,
                   bus, sent, running_, tcp_socket_, rpc, current_delay, crashed,
                   shutdown_requested, exit_code, started, cs_running_, cs_pc, hm_running_,
                   hm_pc>>
    /\ UNCHANGED mainFrame

\* wait_for_modhost: test_connection on the command port
MainProbeCommand(ok) ==
    /\ ~crashed
    /\ main_pc = "probe_command"
    /\ LET a == UpdateCommandConnection(health_state, health_log, now, ok)
           r == IF ok THEN a ELSE UpdateFeedbackConnection(a[1], a[2], now, FALSE)
       IN  /\ health_state' = r[1]
           /\ health_log' = r[2]
    /\ main_pc' = IF ok THEN "probe_feedback" ELSE "wait_sleep"
    /\ UNCHANGED <<initialized_, available_plugins_, instances_, bus, sent, running_,
                   tcp_socket_, rpc, current_delay, crashed, shutdown_requested, exit_code,
                   started, cs_running_, cs_pc, hm_running_, hm_pc>>
    /\ UNCHANGED mainFrame

\* wait_for_modhost: test_connection on the feedback port; true is returned
\* when it succeeds
MainProbeFeedback(ok) ==
    /\ ~crashed
    /\ main_pc = "probe_feedback"
    /\ LET r == UpdateFeedbackConnection(health_state, health_log, now, ok)
       IN  /\ health_state' = r[1]
           /\ health_log' = r[2]
    /\ main_pc' = IF ok THEN "construct" ELSE "wait_sleep"
    /\ UNCHANGED <<initialized_, available_plugins_, instances_, bus, sent, running_,
                   tcp_socket_, rpc, current_delay, crashed, shutdown_requested, exit_code,
                   started, cs_running_, cs_pc, hm_running_, hm_pc>>
    /\ UNCHANGED mainFrame

\* wait_for_modhost: sleep_for(CONNECTION_RETRY_DELAY)
MainWaitSleep ==
    /\ ~crashed
    /\ main_pc = "wait_sleep"
    /\ main_pc' = "wait_test"
    /\ UNCHANGED <<health_state, health_log, initialized_, available_plugins_, instances_,
                   bus, sent, running_, tcp_socket_, rpc, current_delay, crashed,
                   shutdown_requested, exit_code, started, cs_running_, cs_pc, hm_running_,
                   hm_pc>>
    /\ UNCHANGED mainFrame

\* the registry, the command service and the feedback reader are constructed.
\* The reader is given *plugin_manager->get_pub_socket() while pub_socket_ is
\* still null: `fault` is the build in which that dereference ends the process
MainConstruct(fault) ==
    /\ ~crashed
    /\ main_pc = "construct"
    /\ crashed' = fault
    /\ main_pc' = IF fault THEN main_pc ELSE "initialize"
    /\ reader_socket' = IF fault THEN reader_socket
                        ELSE IF initialized_ THEN "socket" ELSE "null"
    /\ UNCHANGED <<health_state, health_log, initialized_, available_plugins_, instances_,
                   bus, sent, running_, tcp_socket_, rpc, current_delay, shutdown_requested,
                   exit_code, started, cs_running_, cs_pc, hm_running_, hm_pc,
                   bundle_states_, is_monitoring_>>
    /\ UNCHANGED mainCore

\* plugin_manager->initialize(); an exception it throws unwinds main, which
\* stops the health monitor and returns 1
MainInitialize(ok) ==
    /\ ~crashed
    /\ main_pc = "initialize"
    /\ initialized_' = ok
    /\ available_plugins_' = IF ok THEN Catalog ELSE available_plugins_
    /\ started' = IF ok THEN Append(started, "plugin_manager") ELSE started
    /\ main_pc' = IF ok THEN "start_command" ELSE "stop_health_fail"
    /\ is_monitoring_' = (ok \/ is_monitoring_)
    /\ bundle_states_' = IF ok THEN Baseline(fs) ELSE bundle_states_
    /\ UNCHANGED <<health_state, health_log, instances_, bus, sent, running_, tcp_socket_,
                   rpc, current_delay, crashed, shutdown_requested, exit_code, cs_running_,
                   cs_pc, hm_running_, hm_pc, reader_socket>>
    /\ UNCHANGED mainCore

\* command_service->start()
MainStartCommand ==
    /\ ~crashed
    /\ main_pc = "start_command"
    /\ cs_running_' = TRUE
    /\ cs_pc' = "loop"
    /\ started' = Append(started, "command_service")
    /\ main_pc' = "start_reader"
    /\ UNCHANGED <<health_state, health_log, initialized_, available_plugins_, instances_,
                   bus, sent, running_, tcp_socket_, rpc, current_delay, crashed,
                   shutdown_requested, exit_code, hm_running_, hm_pc>>
    /\ UNCHANGED mainFrame

\* feedback_reader.start()
MainStartReader ==
    /\ ~crashed
    /\ main_pc = "start_reader"
    /\ running_' = TRUE
    /\ rpc' = "loop"
    /\ current_delay' = MIN_DELAY
    /\ started' = Append(started, "feedback_reader")
    /\ main_pc' = "serve"
    /\ UNCHANGED <<health_state, health_log, initialized_, available_plugins_, instances_,
                   bus, sent, tcp_socket_, crashed, shutdown_requested, exit_code,
                   cs_running_, cs_pc, hm_running_, hm_pc>>
    /\ UNCHANGED mainFrame

\* while (!shutdown_requested) sleep_for(100 ms): the loop is left
MainServe ==
    /\ ~crashed
    /\ main_pc = "serve"
    /\ shutdown_requested
    /\ main_pc' = "stop_reader"
    /\ UNCHANGED <<health_state, health_log, initialized_, available_plugins_, instances_,
                   bus, sent, running_, tcp_socket_, rpc, current_delay, crashed,
                   shutdown_requested, exit_code, started, cs_running_, cs_pc, hm_running_,
                   hm_pc>>
    /\ UNCHANGED mainFrame

\* feedback_reader.stop(): running_ = false
MainStopReader ==
    /\ ~crashed
    /\ main_pc = "stop_reader"
    /\ running_' = FALSE
    /\ main_pc' = "join_reader"
    /\ UNCHANGED <<health_state, health_log, initialized_, available_plugins_, instances_,
                   bus, sent, tcp_socket_, rpc, current_delay, crashed, shutdown_requested,
                   exit_code, started, cs_running_, cs_pc, hm_running_, hm_pc>>
    /\ UNCHANGED mainFrame

\* feedback_reader.stop(): join returns, the socket is closed if still open
MainJoinReader ==
    /\ ~crashed
    /\ main_pc = "join_reader"
    /\ rpc = "done"
    /\ rpc' = "joined"
    /\ tcp_socket_' = -1
    /\ main_pc' = "stop_command"
    /\ UNCHANGED <<health_state, health_log, initialized_, available_plugins_, instances_,
                   bus, sent, running_, current_delay, crashed, shutdown_requested,
                   exit_code, started, cs_running_, cs_pc, hm_running_, hm_pc>>
    /\ UNCHANGED mainFrame

\* command_service->stop(): running_ = false
MainStopCommand ==
    /\ ~crashed
    /\ main_pc = "stop_command"
    /\ cs_running_' = FALSE
    /\ main_pc' = "join_command"
    /\ UNCHANGED <<health_state, health_log, initialized_, available_plugins_, instances_,
                   bus, sent, running_, tcp_socket_, rpc, current_delay, crashed,
                   shutdown_requested, exit_code, started, cs_pc, hm_running_, hm_pc>>
    /\ UNCHANGED mainFrame

\* command_service->stop(): join returns
MainJoinCommand ==
    /\ ~crashed
    /\ main_pc = "join_command"
    /\ cs_pc = "done"
    /\ cs_pc' = "joined"
    /\ main_pc' = "stop_health"
    /\ UNCHANGED <<health_state, health_log, initialized_, available_plugins_, instances_,
                   bus, sent, running_, tcp_socket_, rpc, current_delay, crashed,
                   shutdown_requested, exit_code, started, cs_running_, hm_running_, hm_pc>>
    /\ UNCHANGED mainFrame

\* health_monitor.stop(): running_ = false; at shutdown, or on the way to
\* return 1
MainStopHealth ==
    /\ ~crashed
    /\ main_pc \in {"stop_health", "stop_health_fail"}
    /\ hm_running_' = FALSE
    /\ main_pc' = IF main_pc = "stop_health" THEN "join_health" ELSE "join_health_fail"
    /\ UNCHANGED <<health_state, health_log, initialized_, available_plugins_, instances_,
                   bus, sent, running_, tcp_socket_, rpc, current_delay, crashed,
                   shutdown_requested, exit_code, started, cs_running_, cs_pc, hm_pc>>
    /\ UNCHANGED mainFrame

\* health_monitor.stop(): join returns; return 1 on the failure path
MainJoinHealth ==
    /\ ~crashed
    /\ main_pc \in {"join_health", "join_health_fail"}
    /\ hm_pc = "done"
    /\ hm_pc' = "joined"
    /\ exit_code' = IF main_pc = "join_health" THEN exit_code ELSE 1
    /\ main_pc' = IF main_pc = "join_health" THEN "shutdown_registry" ELSE "exited"
    /\ UNCHANGED <<health_state, health_log, initialized_, available_plugins_, instances_,
                   bus, sent, running_, tcp_socket_, rpc, current_delay, crashed,
                   shutdown_requested, started, cs_running_, cs_pc, hm_running_>>
    /\ UNCHANGED mainFrame

\* plugin_manager->shutdown(); return 0
MainShutdownRegistry ==
    /\ ~crashed
    /\ main_pc = "shutdown_registry"
    /\ \E st \in ShutdownResults(Cur, DOMAIN instances_) : Commit(st)
    /\ initialized_' = FALSE
    /\ exit_code' = 0
    /\ main_pc' = "exited"
    /\ is_monitoring_' = FALSE
    /\ bundle_states_' = EmptyMap
    /\ UNCHANGED <<available_plugins_, running_, tcp_socket_, rpc, current_delay, crashed,
                   shutdown_requested, started, cs_running_, cs_pc, hm_running_, hm_pc,
                   reader_socket>>
    /\ UNCHANGED mainCore

\* The state after PluginManager::initialize(). The clock stands still in the
\* registry specifications, so no heartbeat line is written in them.
InitServices ==
    /\ health_state = HealthAfterWait[1]
    /\ health_log = HealthAfterWait[2]
    /\ now = 0
    /\ updates = 2
    /\ scn = 2
    /\ ConcIdle
    /\ initialized_ = TRUE
    /\ instances_ = EmptyMap
    /\ next_instance = 0
    /\ bus = <<>>
    /\ sent = <<>>
    /\ recorded = <<>>
    /\ scanner_calls = <<>>
    /\ ReaderIdle
    /\ ServicesIdle
    /\ BundleMonitoring
    /\ LockIdle
    /\ reader_socket = "null"
    /\ wire = <<>>
    /\ rep = [s \in RepSockets |-> RepIdle]

InitBridge ==
    /\ InitServices
    /\ available_plugins_ = Catalog
    /\ last = [op |-> "none", status |-> "ok", error |-> ""]

Init == InitBridge /\ ParserIdle

\* Spec: the requests that name a plugin of the catalog and a loaded instance
Next ==
    \/ \E uri \in Catalog, hex \in HexDraws, o \in AddOutcomes(next_instance) :
          LoadPlugin(uri, EmptyMap, hex, o)
    \/ \E id \in DOMAIN instances_, o \in PlainOutcomes,
          u \in Uris \cup {GarbageUri} : UnloadPlugin(id, o, u)
    \/ ClearAll

Spec == Init /\ [][Next]_vars

\* SpecRegistry: any request, and the shutdown that ends the run
NextRegistry ==
    \/ \E uri \in Uris, hex \in HexDraws, o \in AddOutcomes(next_instance) :
          LoadPlugin(uri, EmptyMap, hex, o)
    \/ \E id \in DOMAIN instances_ \cup {UnknownId}, o \in PlainOutcomes,
          u \in Uris \cup {GarbageUri} : UnloadPlugin(id, o, u)
    \/ ClearAll
    \/ Shutdown

SpecRegistry == Init /\ [][NextRegistry]_vars

\* SpecCommandClient: send_to_modhost calls with every outcome of the
\* sockets, while the feedback reader marks its own connection and time passes

\* CommandService::send_to_modhost / PluginManager::send_to_modhost as called
\* for one raw command: the health update it makes and what it returns
SendCommand(o) ==
    /\ Len(sent) < MaxSends
    /\ sent' = Append(sent, Command("raw", <<>>, <<>>))
    /\ LET hs == SendToModhost(<<health_state, health_log>>, now, o) IN
         /\ health_state' = hs[1]
         /\ health_log' = hs[2]
    /\ last' = [op |-> "send_to_modhost",
                status |-> IF HasValue(o) THEN "ok" ELSE "error",
                error |-> IF HasValue(o) THEN "" ELSE o.kind]
    /\ UNCHANGED <<instances_, bus, next_instance, recorded>>
    /\ UNCHANGED registryFrame

NextCommandClient ==
    \/ \E o \in AllOutcomes : SendCommand(o)
    \/ \E c \in BOOLEAN : MarkFeedback(c)
    \/ Tick

SpecCommandClient == Init /\ [][NextCommandClient]_vars

\* SpecCatalog: the requests keyed by a plugin URI, for URIs in and out of
\* the catalog
NextCatalog ==
    \/ \E uri \in Uris, hex \in HexDraws, o \in AddOutcomesBasic(next_instance) :
          /\ Len(sent) < MaxCommands
          /\ LoadPlugin(uri, EmptyMap, hex, o)
    \/ \E op \in UriOps, uri \in Uris, found \in BOOLEAN : UriOp(op, uri, found)

SpecCatalog == Init /\ [][NextCatalog]_vars

\* SpecParams: parameters of loaded instances. The engine takes or does not
\* answer `add`; requests and feedback records arrive in any order.
ParamSymbolInputs == ParamSymbols \cup {"mix"}

NextParams ==
    \/ \E uri \in Catalog, params \in ParamInputs, o \in AddOutcomesBasic(next_instance) :
          /\ ~crashed
          /\ Len(sent) < MaxCommands
          /\ Len(bus) < MaxEvents
          /\ LoadPlugin(uri, params, "0000000a", o)
    \/ \E id \in DOMAIN instances_, o \in PlainOutcomes, u \in Uris \cup {GarbageUri} :
          /\ ~crashed
          /\ Len(sent) < MaxCommands
          /\ Len(bus) < MaxEvents
          /\ UnloadPlugin(id, o, u)
    \/ \E id \in DOMAIN instances_ \cup {UnknownId}, p \in ParamSymbols,
          v \in ParamValues, o \in ParamSetOutcomes :
          /\ ~crashed
          /\ Len(bus) < MaxEvents
          /\ SetParameter(id, p, v, o)
    \/ \E id \in DOMAIN instances_ \cup {UnknownId}, p \in ParamSymbolInputs,
          o \in ParamGetOutcomes : ~crashed /\ GetParameter(id, p, o)
    \/ \E e \in 0..(MaxLive - 1), p \in ParamSymbols, v \in ParamValues :
          FeedbackParamSet(e, p, v)

SpecParams == Init /\ [][NextParams]_vars

\* SpecUnload: loads against an engine that takes the `add` or does not
\* answer, and unload_plugin for known and unknown ids with every outcome of
\* the `remove`
NextUnload ==
    \/ \E uri \in Uris, hex \in HexDraws, o \in AddOutcomesBasic(next_instance) :
          /\ Len(sent) < MaxCommands
          /\ LoadPlugin(uri, EmptyMap, hex, o)
    \/ \E id \in DOMAIN instances_ \cup {UnknownId}, o \in PlainOutcomes,
          u \in Uris \cup {GarbageUri} : UnloadPlugin(id, o, u)

SpecUnload == Init /\ [][NextUnload]_vars

\* SpecGetParameter: loads with initial parameters, set_parameter and
\* get_parameter for known and unknown instances and parameters
NextGetParameter ==
    \/ \E uri \in Catalog, params \in ParamInputs, o \in AddOutcomesBasic(next_instance) :
          /\ Len(sent) < MaxCommands
          /\ Len(bus) < MaxEvents
          /\ LoadPlugin(uri, params, "0000000a", o)
    \/ \E id \in DOMAIN instances_ \cup {UnknownId}, p \in ParamSymbols,
          v \in ParamValues, o \in ParamSetOutcomes :
          /\ Len(bus) < MaxEvents
          /\ SetParameter(id, p, v, o)
    \/ \E id \in DOMAIN instances_ \cup {UnknownId}, p \in ParamSymbolInputs,
          o \in ParamGetOutcomes : GetParameter(id, p, o)

SpecGetParameter == Init /\ [][NextGetParameter]_vars

\* SpecReader: the reader thread against a feedback port that accepts,
\* refuses, sends and closes, and the main thread that stops it
NextReader ==
    \/ ReaderStart
    \/ ReaderLoopTest
    \/ \E ok \in BOOLEAN : ReaderConnect(ok)
    \/ ReaderMarkConnected
    \/ \E buffer \in Chunks, g \in Indeterminate :
          \E outs \in [DOMAIN buffer -> PublishOutcomes] : ReaderRecvData(buffer, outs, g)
    \/ ReaderInnerTest
    \/ ReaderRecvTimeout
    \/ ReaderRecvEnd
    \/ ReaderMarkDisconnected
    \/ ReaderClose
    \/ ReaderMarkFailed
    \/ ReaderBackoff
    \/ ReaderStop
    \/ ReaderJoin

SpecReader == Init /\ [][NextReader]_vars

\* SpecParser: one feedback event of any recognized type, written as a record
\* by the engine and parsed by parse_feedback_line
InitParser ==
    /\ InitBridge
    /\ message_in \in FeedbackTuples
    /\ wire_line = <<>>
    /\ message_out = NoMessage

NextParser ==
    \/ WriteRecord
    \/ \E g \in Indeterminate : ParseRecord(g)

SpecParser == InitParser /\ [][NextParser]_vars

\* SpecLines: parse_feedback_line on any record: a leading token that is a
\* keyword or not, then up to MaxFields further tokens
MaxFields == 3
KeywordNames == {"param_set", "audio_monitor", "output_set", "midi_mapped", "midi_control_change", "midi_program_change",
                 "transport", "patch_set", "log", "cpu_load", "data_finish", "cc_map"}
LeadTokens == {Keyword(n) : n \in KeywordNames}
                  \cup {<<"f", "o", "o">>, <<"p", "a", "r", "a", "m">>, <<"l", "o", "g", "s">>, <<>>}
FieldTokens == {<<"7">>, <<"a", "b", "c">>, <<"g", "a", "i", "n">>, <<"x">>, <<"0", ".", "5">>}

RECURSIVE JoinFields(_)
JoinFields(tokens) ==
    IF tokens = <<>> THEN <<>> ELSE Field(Head(tokens)) \o JoinFields(Tail(tokens))

Lines ==
    {lead \o JoinFields(fields) :
        lead \in LeadTokens, fields \in UNION {[1..n -> FieldTokens] : n \in 0..MaxFields}}

InitLines ==
    /\ InitBridge
    /\ message_in = NoMessage
    /\ wire_line \in Lines \ {<<>>}
    /\ message_out = NoMessage

NextLines == \E g \in Indeterminate : ParseRecord(g)

SpecLines == InitLines /\ [][NextLines]_vars

\* SpecRescan: the initial catalog load and rescan_plugins requests, for
\* every scan the scanner can return
InitRescan ==
    /\ InitServices
    /\ ParserIdle
    /\ \E scan \in Scans, missing \in NoInfo :
          /\ available_plugins_ = ScanCatalog(scan, missing)
          /\ last = [op |-> "initialize", status |-> "ok", error |-> "",
                     plugins_added |-> 0, plugins_removed |-> 0,
                     scan |-> scan, missing |-> missing, threw |-> FALSE]

NextRescan ==
    \E scan \in Scans, missing \in NoInfo, threw \in BOOLEAN :
       ProcessRescanPlugins(scan, missing, threw)

SpecRescan == InitRescan /\ [][NextRescan]_vars

\* SpecRescanLive: SpecRescan with a plugin of the catalog loaded before the
\* rescans
NextRescanLive ==
    \/ NextRescan
    \/ \E uri \in available_plugins_, hex \in HexDraws :
          /\ instances_ = EmptyMap
          /\ LoadPlugin(uri, EmptyMap, hex, RespZero)

SpecRescanLive == InitRescan /\ [][NextRescanLive]_vars

\* SpecBundle: the bundle monitor, polled after startMonitoring took its
\* baseline, while bundles come, go and change
InitBundle ==
    /\ InitServices
    /\ ParserIdle
    /\ available_plugins_ = Catalog
    /\ last = [op |-> "start_monitoring", status |-> "ok", error |-> "",
               polls |-> 0, seen |-> fs, has_changes |-> FALSE, callbacks |-> 0,
               threw |-> FALSE]

\* the scans the rescan of a poll can meet
PollScans == {{}, {"A_uri"}, {"A_uri", "B_uri"} \cup RejectedUris}

NextBundle ==
    \/ \E d \in BundleDirs, entry \in DirStates : FsChange(d, entry)
    \/ \E scan \in PollScans, threw \in BOOLEAN : CheckForChanges(scan, {}, threw)

SpecBundle == InitBundle /\ [][NextBundle]_vars

\* SpecSearch: search_plugins requests on the catalog loaded from a scan that
\* found every plugin
InitSearch ==
    /\ InitServices
    /\ ParserIdle
    /\ available_plugins_ = ScanCatalog(ScanUris, {})
    /\ last = [op |-> "none", status |-> "ok", error |-> ""]

NextSearch ==
    \E query \in Queries, obj \in CriteriaObjects \cup {NoCriteria} : SearchPlugins(query, obj)

SpecSearch == InitSearch /\ [][NextSearch]_vars

\* SpecService: the command service from start() to the end of stop(), over
\* the registry as initialize() leaves it and with one instance loaded or not
NextService ==
    \/ CsStart
    \/ CsLoopTest
    \/ CsRecvTimeout
    \/ \E request \in RequestBodies, o \in AllOutcomes : ServiceRequest(request, o)
    \/ CsStop
    \/ CsJoin
    \/ \E hex \in HexDraws :
          /\ instances_ = EmptyMap
          /\ cs_pc = "idle"
          /\ LoadPlugin("foo_uri", EmptyMap, hex, RespZero)

SpecService == Init /\ [][NextService]_vars

\* SpecMonitor: the health monitor from start() to the end of stop(), while the
\* two connection flags are updated
MaxMonitorUpdates == 3

NextMonitor ==
    \/ HmStart
    \/ HmLoopTest
    \/ HmRecvTimeout
    \/ \E request \in HealthBodies : HealthRequest(request)
    \/ HmStop
    \/ HmJoin
    \/ \E c \in BOOLEAN : updates < MaxMonitorUpdates /\ MarkCommand(c)
    \/ \E c \in BOOLEAN : updates < MaxMonitorUpdates /\ MarkFeedback(c)

SpecMonitor == InitHealth /\ [][NextMonitor]_vars

\* SpecMain: the process from the start of main to its return, with the
\* three service threads and a signal at any time
MainAtStart ==
    /\ shutdown_requested = FALSE
    /\ main_pc = "start"
    /\ exit_code = -1
    /\ started = <<>>
    /\ cs_running_ = FALSE
    /\ cs_pc = "idle"
    /\ hm_running_ = FALSE
    /\ hm_pc = "idle"

InitMain == HealthFresh /\ ConcIdle /\ RegistryFresh /\ MainAtStart

\* the requests and the feedback the services meet in SpecMain
MainRequests == {RequestObject({"command"}, "", "", <<"cpu_load">>, <<>>, <<>>)}
MainHealthRequests == {RequestObject({"action"}, "health", "", <<>>, <<>>, <<>>)}
MainChunks == {<<"c", NUL>>}
MainIndeterminate == {[u32 |-> 0, f64 |-> 0, bool |-> FALSE]}
MaxWaitLog == 2        \* health log lines written before a probe of the wait fails
MainConnects == 1      \* successful connects of the reader in SpecMain
MainSleeps == 1        \* backoff sleeps of the reader after a failed connect in SpecMain

MainThread ==
    \/ MainStartHealth
    \/ MainWaitTest
    \/ \E ok \in BOOLEAN : (~ok => Len(health_log) < MaxWaitLog) /\ MainProbeCommand(ok)
    \/ \E ok \in BOOLEAN : (~ok => Len(health_log) < MaxWaitLog) /\ MainProbeFeedback(ok)
    \/ MainWaitSleep
    \/ \E fault \in BOOLEAN : MainConstruct(fault)
    \/ \E ok \in BOOLEAN : MainInitialize(ok)
    \/ MainStartCommand
    \/ MainStartReader
    \/ MainServe
    \/ MainStopReader
    \/ MainJoinReader
    \/ MainStopCommand
    \/ MainJoinCommand
    \/ MainStopHealth
    \/ MainJoinHealth
    \/ MainShutdownRegistry

ReaderThread ==
    \/ ReaderLoopTest
    \/ connects < MainConnects /\ ReaderConnect(TRUE)
    \/ (running_ => Len(slept) < MainSleeps) /\ ReaderConnect(FALSE)
    \/ ReaderMarkConnected
    \/ ReaderInnerTest
    \/ ReaderRecvTimeout
    \/ \E buffer \in MainChunks, g \in MainIndeterminate :
          \E outs \in [DOMAIN buffer -> PublishOutcomes] : ReaderRecvData(buffer, outs, g)
    \/ ReaderRecvEnd
    \/ ReaderMarkDisconnected
    \/ ReaderClose
    \/ ReaderMarkFailed
    \/ ReaderBackoff

CommandThread ==
    /\ ~crashed
    /\ \/ CsLoopTest
       \/ CsRecvTimeout
       \/ \E request \in MainRequests : sent = <<>> /\ ServiceRequest(request, RespZero)

HealthThread ==
    /\ ~crashed
    /\ \/ HmLoopTest
       \/ HmRecvTimeout
       \/ \E request \in MainHealthRequests : HealthRequest(request)

NextMain ==
    \/ SignalHandler
    \/ MainThread
    \/ ReaderThread
    \/ CommandThread
    \/ HealthThread

SpecMain == InitMain /\ [][NextMain]_vars

\* SpecMainFair: SpecMain with every thread scheduled again and again, and
\* every blocking call of a thread returning (recv and connect have timeouts,
\* the sleeps end)
SpecMainFair ==
    /\ InitMain
    /\ [][NextMain]_vars
    /\ WF_vars(MainThread)
    /\ WF_vars(ReaderThread)
    /\ WF_vars(CommandThread)
    /\ WF_vars(HealthThread)

\* SpecBridgeFair: SpecMainFair while bundles are installed, removed or
\* rewritten in the monitored directory once the bridge serves. No thread of
\* the bridge calls PluginBundleMonitor::checkForChanges.
NextBridge ==
    \/ NextMain
    \/ /\ main_pc = "serve"
       /\ fs = InitialFs
       /\ \E entry \in DirStates : FsChange("a.lv2", entry)

SpecBridgeFair ==
    /\ InitMain
    /\ [][NextBridge]_vars
    /\ WF_vars(MainThread)
    /\ WF_vars(ReaderThread)
    /\ WF_vars(CommandThread)
    /\ WF_vars(HealthThread)

-----------------------------------------------------------------------------
(* Claims about the HealthState *)

\* the status table of the specification
TableStatus(c, f) ==
    CASE ~c -> "Unhealthy"
      [] c /\ ~f -> "Degraded"
      [] c /\ f -> "Healthy"

IsChanged(e) == e.kind = "changed"
Changes(log) == SelectSeq(log, IsChanged)
ChangeCount(log) == Len(Changes(log))

\* C1: after any sequence of mark_command / mark_feedback updates run one at
\* a time the status is the table value of the two flags, and once an update
\* has run the status is never Starting.
C1_StatusIsTableValue ==
    updates > 0 =>
        /\ health_state.status =
               TableStatus(health_state.command_connected, health_state.feedback_connected)
        /\ health_state.status # "Starting"

\* C1 witness: several updates have run and only the feedback flag is up
C1_Witness ==
    /\ updates >= 3
    /\ ~health_state.command_connected
    /\ health_state.feedback_connected
    /\ health_state.status = "Unhealthy"

\* C2: with the two threads interleaved at their reads and writes, whenever no
\* update is in progress the status is the table value of the stored flags.
C2_QuiescentStatusIsTableValue ==
    (updates > 0 /\ \A t \in Threads : pc[t] = "idle") =>
        health_state.status =
            TableStatus(health_state.command_connected, health_state.feedback_connected)

ScenarioStatus(k) ==
    CASE k = 2 -> "Healthy"
      [] k = 3 -> "Degraded"
      [] k = 4 -> "Unhealthy"
      [] k = 5 -> "Degraded"
      [] k = 6 -> "Healthy"

\* the "changed" lines chain from Starting to the current status, each one a
\* real change: one line per change of the value, none when it is unchanged
OneLinePerChange ==
    LET c == Changes(health_log) IN
    /\ \A i \in DOMAIN c :
          /\ c[i].from # c[i].to
          /\ c[i].from = IF i = 1 THEN "Starting" ELSE c[i - 1].to
    /\ health_state.status = IF c = <<>> THEN "Starting" ELSE c[Len(c)].to

\* C3 (as stated): the scenario's statuses are healthy, degraded, unhealthy,
\* degraded, healthy, and exactly five status-change lines are logged over it.
C3_FiveLogEntries ==
    /\ scn \in 2..6 => health_state.status = ScenarioStatus(scn)
    /\ scn = 6 => ChangeCount(health_log) = 5

\* C3 (amended): the scenario's statuses are as stated, one line is logged per
\* change of the status value and none otherwise, and over the whole scenario
\* from a fresh HealthState exactly six status-change lines are logged: two
\* while both connections come up (Starting -> Degraded or Unhealthy ->
\* Healthy) and one for each of the four later steps.
C3_SixLogEntries ==
    /\ scn \in 2..6 => health_state.status = ScenarioStatus(scn)
    /\ scn \in 1..6 => ChangeCount(health_log) = scn
    /\ OneLinePerChange

\* C3 witness: the scenario has run to its end
C3_Witness == scn = 6 /\ health_state.status = "Healthy"

-----------------------------------------------------------------------------
(* Claims about the plugin registry *)

IsAdd(c) == c.cmd = "add"
Adds == SelectSeq(sent, IsAdd)
Live == DOMAIN instances_
NewEvents == SubSeq(bus', Len(bus) + 1, Len(bus'))

\* a whole `resp <n>` line, n >= 0
WellFormedResp(body) ==
    /\ Len(body) > 5
    /\ SubSeq(body, 1, 5) = RESP
    /\ \A i \in 6..Len(body) : IsDigit(body[i])

\* a whole `resp -<n>` line
NegativeResp(body) ==
    /\ Len(body) > 6
    /\ SubSeq(body, 1, 5) = RESP
    /\ body[6] = "-"
    /\ \A i \in 7..Len(body) : IsDigit(body[i])

\* C4: no two live instances share an instance_id, and no two live instances
\* share an engine_instance, whatever the engine replies.
C4_LiveInstancesDistinct ==
    \A a, b \in Live :
        /\ instances_[a].instance_id = a
        /\ a # b => instances_[a].host_instance # instances_[b].host_instance

\* C5: the engine_instance values recorded by successful loads are strictly
\* increasing over the run; no value is recorded twice.
C5_RecordedStrictlyIncreasing ==
    \A i, j \in DOMAIN recorded : i < j => recorded[i] < recorded[j]

\* C6: the numbers of the successive `add` commands are 0, 1, 2, ...: every
\* load that reaches the engine command consumes the next number, accepted or
\* not, and no number is issued again.
C6_RequestedInstancesCountUp ==
    /\ \A i \in DOMAIN Adds : Adds[i].arg = <<i - 1>>
    /\ next_instance = Len(Adds)

\* C6 witness: three adds were issued, one of them rejected, and an instance
\* has been unloaded in between
C6_Witness ==
    /\ Len(Adds) = 3
    /\ Adds[3].arg = <<2>>
    /\ Len(recorded) = 2
    /\ \E i \in DOMAIN bus : bus[i].type = "plugin_unloaded"

\* C7: when the URI is in the catalog and the engine answers `add` with a
\* negative resp code or not at all, load_plugin returns an error, publishes
\* nothing and leaves the instances map as it was.
C7_RejectedLoadChangesNothing ==
    [][\A uri \in Catalog, hex \in HexDraws, o \in AddOutcomes(next_instance) :
         (LoadPlugin(uri, EmptyMap, hex, o) /\ (~HasValue(o) \/ NegativeResp(o.body)))
            => /\ last'.op = "load_plugin"
               /\ last'.status = "error"
               /\ bus' = bus
               /\ instances_' = instances_]_vars

\* C7 witness: a load has just failed on the engine while an instance is loaded
C7_Witness ==
    /\ last.op = "load_plugin"
    /\ last.status = "error"
    /\ last.error \in {"EngineError", "EngineUnreachable"}
    /\ Live # {}
    /\ Len(Adds) > Len(recorded)

\* C8: for every reply to `add` that is not a whole `resp <n>` line with
\* n >= 0, load_plugin fails, publishes no plugin_loaded and inserts nothing.
C8_MalformedReplyFailsLoad ==
    [][\A uri \in Catalog, hex \in HexDraws, o \in AddOutcomes(next_instance) :
         (LoadPlugin(uri, EmptyMap, hex, o) /\ HasValue(o) /\ ~WellFormedResp(o.body))
            => /\ last'.status = "error"
               /\ bus' = bus
               /\ instances_' = instances_]_vars

\* the ids with a plugin_loaded event and no later plugin_unloaded event
LiveByEvents ==
    { bus[i].instance_id : i \in
        { k \in DOMAIN bus :
            /\ bus[k].type = "plugin_loaded"
            /\ ~\E j \in DOMAIN bus :
                  /\ j > k
                  /\ bus[j].type = "plugin_unloaded"
                  /\ bus[j].instance_id = bus[k].instance_id } }

\* C9: at every point the set of live instances is the set of ids with a
\* plugin_loaded event and no later plugin_unloaded event: an instance leaves
\* the registry if and only if plugin_unloaded is published for it.
C9_LiveSetMatchesEvents == Live = LiveByEvents

\* C10: clear_all returns "ok", leaves the instances map empty, and publishes
\* exactly one plugin_unloaded for each instance that was live when it
\* started, whatever the engine answers to each remove. The steps that answer
\* a clear_all request are the ClearAll steps.
C10_ClearAllUnloadsEach ==
    [][last'.op = "clear_all" =>
         /\ last'.status = "ok"
         /\ Live' = {}
         /\ Len(bus') = Len(bus) + Cardinality(Live)
         /\ SubSeq(bus', 1, Len(bus)) = bus
         /\ \A id \in Live :
              Cardinality({k \in DOMAIN NewEvents :
                              /\ NewEvents[k].type = "plugin_unloaded"
                              /\ NewEvents[k].instance_id = id}) = 1]_vars

\* C10 witness: clear_all has just run over two loaded instances
C10_Witness ==
    /\ last.op = "clear_all"
    /\ Live = {}
    /\ Len(bus) >= 4
    /\ bus[Len(bus)].type = "plugin_unloaded"
    /\ bus[Len(bus) - 1].type = "plugin_unloaded"
    /\ bus[Len(bus) - 2].type = "plugin_loaded"
    /\ bus[Len(bus) - 3].type = "plugin_loaded"

-----------------------------------------------------------------------------
(* Claims about unload_plugin *)

\* C11: unload_plugin on an instance_id that is not in the registry fails with
\* InstanceNotFound, sends nothing to the engine, publishes nothing and
\* changes nothing; on a known instance_id it removes exactly that instance
\* and publishes one plugin_unloaded for it, whatever came of the `remove`.
C11_UnloadContract ==
    [][\A id \in DOMAIN instances_ \cup {UnknownId}, o \in PlainOutcomes,
          u \in Uris \cup {GarbageUri} :
         UnloadPlugin(id, o, u) =>
            IF id \notin Live
            THEN /\ last' = [op |-> "unload_plugin", status |-> "error",
                             error |-> "InstanceNotFound"]
                 /\ sent' = sent
                 /\ bus' = bus
                 /\ instances_' = instances_
                 /\ UNCHANGED <<health_state, health_log, next_instance, recorded>>
            ELSE /\ last'.status = "ok"
                 /\ Live' = Live \ {id}
                 /\ \A x \in Live' : instances_'[x] = instances_[x]
                 /\ Len(sent') = Len(sent) + 1
                 /\ SubSeq(sent', 1, Len(sent)) = sent
                 /\ sent'[Len(sent')].cmd = "remove"
                 /\ sent'[Len(sent')].target = id
                 /\ Len(bus') = Len(bus) + 1
                 /\ SubSeq(bus', 1, Len(bus)) = bus
                 /\ bus'[Len(bus')].type = "plugin_unloaded"
                 /\ bus'[Len(bus')].instance_id = id]_vars

\* C11 witness: an unknown id has just been refused, with an instance loaded
\* and after an earlier unload went through
C11_Witness ==
    /\ last = [op |-> "unload_plugin", status |-> "error", error |-> "InstanceNotFound"]
    /\ Live # {}
    /\ \E i \in DOMAIN bus : bus[i].type = "plugin_unloaded"
    /\ \E i \in DOMAIN sent : sent[i].cmd = "remove"

-----------------------------------------------------------------------------
(* Claims about the parameters of loaded instances *)

\* the engine took the command: a whole `resp <n>` line, n >= 0
Accepted(o) == HasValue(o) /\ WellFormedResp(o.body)

\* C12: set_parameter on a known instance returns an error whenever the reply
\* to `param_set` is a negative resp code, not a resp line, or absent, and
\* then neither the stored parameters nor the event stream change.
C12_SetParameterFailsOnEngineError ==
    [][\A id \in DOMAIN instances_, p \in ParamSymbols, v \in ParamValues,
          o \in ParamSetOutcomes :
         (SetParameter(id, p, v, o) /\ ~Accepted(o))
            => /\ last'.op = "set_parameter"
               /\ last'.status = "error"
               /\ instances_' = instances_
               /\ bus' = bus]_vars

\* C13: the stored value of a parameter of a live instance follows the last
\* value the engine accepted from set_parameter and the last value a feedback
\* param_set record carried for the instance's engine_instance: after either
\* step the stored value is the value of that step.
C13_StoredValueFollowsEngine ==
    [][/\ \A id \in DOMAIN instances_, p \in ParamSymbols, v \in ParamValues,
            o \in ParamSetOutcomes :
            (SetParameter(id, p, v, o) /\ Accepted(o))
               => /\ p \in DOMAIN instances_'[id].parameters
                  /\ instances_'[id].parameters[p] = v
       /\ \A e \in 0..(MaxLive - 1), p \in ParamSymbols, v \in ParamValues :
            FeedbackParamSet(e, p, v)
               => \A id \in Live :
                     instances_[id].host_instance = e
                        => /\ id \in Live'
                           /\ p \in DOMAIN instances_'[id].parameters
                           /\ instances_'[id].parameters[p] = v]_vars

\* replies that are a decimal number and nothing else, and replies that do not
\* begin with a number
IsNumberText(body) == \E v \in 0..99 : ValueText(v) = body
NumberOf(body) == CHOOSE v \in 0..99 : ValueText(v) = body
NoNumberAtStart(body) == body = <<>> \/ ~IsDigit(Head(body))

\* C14: get_parameter on a known instance returns ok with the engine's value
\* when the reply is a number, with the stored value (0 when there is none)
\* when there is no reply or the reply does not begin with a number, and
\* changes neither the registry nor the event stream; on an unknown
\* instance_id it fails with InstanceNotFound.
C14_GetParameterNeverFails ==
    [][\A id \in DOMAIN instances_ \cup {UnknownId}, p \in ParamSymbolInputs,
          o \in ParamGetOutcomes :
         GetParameter(id, p, o) =>
            /\ instances_' = instances_
            /\ bus' = bus
            /\ IF id \notin Live
               THEN /\ last'.status = "error"
                    /\ last'.error = "InstanceNotFound"
                    /\ sent' = sent
               ELSE LET stored == IF p \in DOMAIN instances_[id].parameters
                                  THEN instances_[id].parameters[p] ELSE 0
                    IN  /\ last'.op = "get_parameter"
                        /\ last'.status = "ok"
                        /\ last'.parameter = p
                        /\ (HasValue(o) /\ IsNumberText(o.body))
                              => last'.value = NumberOf(o.body)
                        /\ (~HasValue(o) \/ NoNumberAtStart(o.body))
                              => last'.value = stored
                        /\ last'.value \in {stored, EngineValue}]_vars

\* C14 witness: get_parameter has just answered with the stored value of a
\* parameter that set_parameter or load_plugin stored
C14_Witness ==
    /\ last.op = "get_parameter"
    /\ last.status = "ok"
    /\ last.value \in ParamValues
    /\ \E id \in Live : /\ last.parameter \in DOMAIN instances_[id].parameters
                        /\ instances_[id].parameters[last.parameter] = last.value

\* C15: with an engine that accepts every command, load_plugin of a catalog
\* URI with initial parameters {gain: 0.5} as the first request records
\* engine_instance 0 and puts plugin_loaded and then parameter_changed on the
\* bus; the unload_plugin that follows returns ok, puts plugin_unloaded on the
\* bus and leaves no instance.
C15_BasicScenario ==
    [][/\ \A uri \in Catalog, hex \in HexDraws :
            (/\ sent = <<>> /\ bus = <<>> /\ Live = {}
             /\ LoadPluginWith(uri, [p \in {"gain"} |-> 5], hex, RespZero,
                               [p \in {"gain"} |-> RespZero]))
               => /\ last'.status = "ok"
                  /\ recorded' = <<0>>
                  /\ Len(bus') = 2
                  /\ bus'[1].type = "plugin_loaded"
                  /\ bus'[2].type = "parameter_changed"
       /\ \A id \in Live, u \in Uris \cup {GarbageUri} :
            (/\ Live = {id} /\ Len(sent) = 2 /\ recorded = <<0>>
             /\ UnloadPlugin(id, RespZero, u))
               => /\ last'.status = "ok"
                  /\ bus'[Len(bus')].type = "plugin_unloaded"
                  /\ Live' = {}]_vars

-----------------------------------------------------------------------------
(* Claims about the catalog lookup *)

\* C16: a registry operation keyed by a plugin URI, called with a URI that is
\* not in the catalog, fails with PluginNotFound, sends no engine command,
\* makes no call on the plugin scanner, and leaves the instances map, the
\* catalog and the event stream as they were.
C16_UnknownUriFailsFirst ==
    [][\A uri \in Uris \ available_plugins_ :
         \/ \E hex \in HexDraws, o \in AddOutcomesBasic(next_instance) :
               LoadPlugin(uri, EmptyMap, hex, o)
         \/ \E op \in UriOps, found \in BOOLEAN : UriOp(op, uri, found)
         => /\ last'.status = "error"
            /\ last'.error = "PluginNotFound"
            /\ sent' = sent
            /\ scanner_calls' = scanner_calls
            /\ instances_' = instances_
            /\ available_plugins_' = available_plugins_
            /\ bus' = bus
            /\ next_instance' = next_instance]_vars

\* C16 witness: a request for a URI outside the catalog has just been refused
\* after the scanner served a request for a URI of the catalog, with an
\* instance loaded
C16_Witness ==
    /\ last.op \in UriOps
    /\ last.error = "PluginNotFound"
    /\ scanner_calls # <<>>
    /\ Live # {}

-----------------------------------------------------------------------------
(* Claims about the engine command client *)

NetworkFailures == {"connect_fail", "send_fail", "no_reply"}

\* C17: after a send_to_modhost call that returned an error because the
\* connect, the send or the receive failed, the command flag of the
\* HealthState is false; after a call that succeeded it is true.
C17_ErrorMarksCommandDown ==
    last.op = "send_to_modhost" =>
        /\ (last.status = "error" /\ last.error \in NetworkFailures)
              => ~health_state.command_connected
        /\ last.status = "ok" => health_state.command_connected

\* C18: in the feedback reader the k-th backoff sleep since the start or the
\* last successful connect lasts min(100 * 2^(k-1), 5000) ms, the delay is
\* always between 100 and 5000 ms, and after a successful connect the next
\* delay used is 100 ms again.
C18_Backoff ==
    /\ \A k \in 1..Len(slept) : slept[k] = Min(100 * 2^(k - 1), 5000)
    /\ current_delay >= 100 /\ current_delay <= 5000
    /\ rpc \in {"recv", "in_recv"} => current_delay = 100

\* the cap was reached after a reconnect: 100, 200, ..., 3200, 5000, 5000
C18_Witness ==
    /\ connects >= 1
    /\ Len(slept) >= 8
    /\ slept[7] = 5000 /\ slept[8] = 5000

\* the events the reader's sends put on the bus, for the records `recs`
RECURSIVE PublishedOf(_)
PublishedOf(recs) ==
    IF recs = <<>> THEN <<>>
    ELSE (IF Head(recs).send = "sent"
          THEN <<FeedbackToJson(ParseFeedbackLine(Head(recs).line,
                                                  [u32 |-> 0, f64 |-> 0, bool |-> FALSE]))>>
          ELSE <<>>) \o PublishedOf(Tail(recs))

\* the reader is between two steps of its protocol: not started, about to
\* connect, waiting in recv, about to sleep, or ended
ReaderAtRest ==
    rpc \in {"idle", "loop", "connect", "recv", "in_recv", "backoff", "done", "joined"}

\* C19: the reader marks feedback_connected false before it sleeps for the
\* backoff delay and true on a successful connect; every complete non-empty
\* record received is handed to the bus (a send that throws is logged and
\* dropped); and feedback_connected is true exactly while the reader holds an
\* open feedback connection.
C19_FlagFollowsConnection ==
    /\ rpc = "backoff" => ~health_state.feedback_connected
    /\ rpc \in {"recv", "in_recv"} => health_state.feedback_connected
    /\ \A i \in DOMAIN received : received[i].send \in {"sent", "failed"}
    /\ bus = PublishedOf(received)
    /\ ReaderAtRest => (health_state.feedback_connected <=> tcp_socket_ >= 0)

\* a string the grammar can carry as one token: not empty, no white space
IsToken(str) == str # <<>> /\ \A i \in DOMAIN str : str[i] \notin Whitespace
\* a text the grammar can carry as the rest of a line: no '\n'
IsLineText(str) == \A i \in DOMAIN str : str[i] # "\n"

\* the string fields of the event are tokens and its rest-of-line field is
\* the text of one line
Carried(m) ==
    /\ "symbol" \in DOMAIN m => IsToken(m.symbol)
    /\ "message" \in DOMAIN m => IsLineText(m.message)
    /\ "raw" \in DOMAIN m => IsLineText(m.raw)

\* C20 as stated: for every recognized feedback type and every field tuple,
\* parsing the record built from the tuple gives an event of the same type
\* with the same field values.
C20_RoundTripEveryTuple ==
    message_out # NoMessage => message_out = message_in

\* C20, amended: the round trip holds for every recognized feedback type and
\* every field tuple whose symbol is a non-empty string without white space
\* and whose rest-of-line text has no newline.
C20_RoundTrip ==
    (message_out # NoMessage /\ Carried(message_in)) => message_out = message_in

\* a log record whose message starts with a space came back as it was sent
C20_Witness ==
    /\ message_in.alt = "Log"
    /\ message_in.message = <<" ", "x">>
    /\ message_out = message_in

\* the white-space delimited tokens of a line
RECURSIVE Tokens(_)
Tokens(line) ==
    LET body == SkipWhitespace(line)
        t == TokenPrefix(body)
    IN  IF body = <<>> THEN <<>> ELSE <<t>> \o Tokens(DropPrefix(body, Len(t)))

FirstToken(line) == IF Tokens(line) = <<>> THEN <<>> ELSE Head(Tokens(line))
Recognized(line) == \E n \in KeywordNames : FirstToken(line) = Keyword(n)

FieldTypes(n) ==
    CASE n \in {"param_set", "output_set"} -> <<"u32", "str", "f64">>
      [] n = "audio_monitor" -> <<"u32", "f64">>
      [] n = "midi_mapped" -> <<"u32", "str", "u32", "u32">>
      [] n = "midi_control_change" -> <<"u32", "u32", "u32">>
      [] n = "midi_program_change" -> <<"u32", "u32">>
      [] n = "transport" -> <<"bool", "f64", "f64">>
      [] n = "patch_set" -> <<"u32", "str">>
      [] n = "log" -> <<"u32">>
      [] n = "cpu_load" -> <<"f64", "f64", "u32">>
      [] n \in {"data_finish", "cc_map"} -> <<>>

IsU32(tok) == tok # <<>> /\ \A i \in DOMAIN tok : IsDigit(tok[i])
IsF64(tok) ==
    \/ IsU32(tok)
    \/ \E k \in DOMAIN tok :
          /\ tok[k] = "."
          /\ IsU32(SubSeq(tok, 1, k - 1))
          /\ IsU32(SubSeq(tok, k + 1, Len(tok)))
IsValue(tok, ty) ==
    CASE ty = "u32" -> IsU32(tok)
      [] ty = "f64" -> IsF64(tok)
      [] ty = "bool" -> tok \in {<<"0">>, <<"1">>}
      [] ty = "str" -> TRUE

\* the record has a keyword, and a field is missing or is not a value of its type
Malformed(line) ==
    \E n \in KeywordNames :
       /\ FirstToken(line) = Keyword(n)
       /\ LET fields == Tail(Tokens(line)) IN
            \/ Len(fields) < Len(FieldTypes(n))
            \/ \E i \in DOMAIN FieldTypes(n) : ~IsValue(fields[i], FieldTypes(n)[i])

\* C22: a record with a recognized keyword whose fields do not fit the field
\* list of the type parses to an Unknown event carrying the raw line.
C22_MalformedIsUnknown ==
    (message_out # NoMessage /\ Malformed(wire_line))
       => message_out = [alt |-> "UnknownFeedback", type |-> "unknown", raw |-> wire_line]

\* whether a catalog entry satisfies the member `k` of a criteria object
SatisfiesMember(plugin, obj, k) ==
    CASE k = "category" ->
            \E i \in DOMAIN plugin.category :
               Contains(ToLower(plugin.category[i]), ToLower(obj.category))
      [] k = "author" -> Contains(ToLower(plugin.author), ToLower(obj.author))
      [] k = "has_parameter" ->
            \E i \in DOMAIN plugin.control_inputs :
               Contains(ToLower(plugin.control_inputs[i].symbol), ToLower(obj.has_parameter))
      [] k = "min_audio_inputs" -> plugin.audio_inputs >= obj.min_audio_inputs
      [] k = "min_audio_outputs" -> plugin.audio_outputs >= obj.min_audio_outputs
      [] k = "max_audio_inputs" -> plugin.audio_inputs <= obj.max_audio_inputs
      [] k = "max_audio_outputs" -> plugin.audio_outputs <= obj.max_audio_outputs

\* C23: a search_plugins request with a criteria object returns exactly the
\* catalog entries that satisfy every member of the object (category, author,
\* required parameter symbol, audio port bounds), whatever the query; without
\* criteria and without a query it returns the whole catalog.
C23_SearchReturnsMatches ==
    last.op = "search_plugins" =>
       /\ last.criteria # NoCriteria =>
             last.plugins = {uri \in available_plugins_ :
                               \A k \in last.criteria.members :
                                  SatisfiesMember(PluginInfoOf(uri), last.criteria, k)}
       /\ (last.criteria = NoCriteria /\ last.query = <<>>) =>
             last.plugins = available_plugins_

\* the same statement without the required parameter symbol
C23_SearchWithoutParameter ==
    last.op = "search_plugins" =>
       /\ last.criteria # NoCriteria =>
             last.plugins = {uri \in available_plugins_ :
                               \A k \in last.criteria.members \ {"has_parameter"} :
                                  SatisfiesMember(PluginInfoOf(uri), last.criteria, k)}
       /\ (last.criteria = NoCriteria /\ last.query = <<>>) =>
             last.plugins = available_plugins_

\* C24: a rescan answers with the number of entries of the new catalog that
\* were not in the prior one and the number of entries of the prior catalog
\* that are not in the new one, both non-negative.
C24_RescanCounts ==
    [][(last'.op = "rescan_plugins" /\ last' # last) =>
          /\ last'.plugins_added = Cardinality(available_plugins_' \ available_plugins_)
          /\ last'.plugins_removed = Cardinality(available_plugins_ \ available_plugins_')
          /\ last'.plugins_added >= 0
          /\ last'.plugins_removed >= 0]_vars

\* the validation policy, on the plugin description
PassesPolicy(uri) ==
    LET plugin == PluginInfoOf(uri)
        ports == plugin.control_inputs \o plugin.control_outputs
    IN  /\ uri \notin IncompatiblePlugins
        /\ plugin.audio_inputs + plugin.audio_outputs >= 1
        /\ plugin.audio_inputs <= 8
        /\ plugin.audio_outputs <= 8
        /\ \A i \in DOMAIN ports : ports[i].min_value <= ports[i].max_value

\* C25: after the initial load and after every rescan each catalog entry passes
\* the validation policy, and a scanned plugin that passes it (one whose
\* control range exceeds 1e6 included) is in the catalog.
C25_CatalogIsValidated ==
    /\ \A uri \in available_plugins_ : PassesPolicy(uri)
    /\ (last.op \in {"initialize", "rescan_plugins"} /\ ~last.threw) =>
          \A uri \in last.scan \ last.missing : PassesPolicy(uri) => uri \in available_plugins_

C25_Witness ==
    /\ last.op = "rescan_plugins"
    /\ ~last.threw
    /\ RejectedUris \subseteq last.scan
    /\ "H_uri" \in last.scan
    /\ available_plugins_ = {"H_uri"}
    /\ Len(bus) = 2

\* the service has just answered a request
Answered == last.op = "service_request" /\ cs_pc = "loop"

\* C26: the reply to a legacy request ({command} or {name, args}) is the
\* object process_command returned: the success object whose raw member is the
\* response body of the engine, or an error object; never an empty value.
C26_LegacyReplyIsCommandResult ==
    (Answered /\ ParsesAsJson(last.request) /\ ~IsPluginCommand(last.request)
              /\ IsLegacyCommand(last.request)) =>
       /\ last.reply # JsonNull
       /\ last.reply = last.returned
       /\ IF HasValue(last.outcome)
          THEN "raw" \in DOMAIN last.reply /\ last.reply.raw = last.outcome.body
          ELSE "error" \in DOMAIN last.reply

\* the state the service must leave alone when it rejects a request
rejectFrame == <<initialized_, available_plugins_, instances_, next_instance, bus, recorded,
                 sent, health_state, health_log, cs_running_>>

\* C27: a body that is not JSON is answered {error: "Invalid request format"},
\* a plugin request with an unknown method is answered with an error object;
\* neither changes the registry nor sends a command to the engine, and the
\* service goes on to its next receive.
C27_RejectedRequestChangesNothing ==
    [][(cs_pc = "recv" /\ cs_pc' = "loop" /\ last'.op = "service_request") =>
          /\ ~ParsesAsJson(last'.request) =>
                /\ last'.reply = [json |-> "object", error |-> "Invalid request format"]
                /\ UNCHANGED rejectFrame
          /\ (ParsesAsJson(last'.request) /\ IsPluginCommand(last'.request)
                /\ "method" \in last'.request.members
                /\ last'.request.method \notin PluginMethods) =>
                /\ DOMAIN last'.reply = {"json", "error"}
                /\ last'.reply.json = "object"
                /\ UNCHANGED rejectFrame]_vars

\* a plugin request with an unknown method was rejected after the engine took
\* commands, and the service is at its receive
\* again with an instance still loaded (C27)
C27_Witness ==
    /\ last.op = "service_request"
    /\ last.request.method = "bogus"
    /\ "error" \in DOMAIN last.reply
    /\ cs_pc = "recv"
    /\ cs_running_
    /\ instances_ # EmptyMap
    /\ Len(sent) = MaxRequests

\* the status strings of a health reply
StatusStrings == [Starting |-> "starting", Healthy |-> "healthy",
                  Degraded |-> "degraded", Unhealthy |-> "unhealthy"]

\* the snapshot of the health state as a reply
Snapshot(reply, h) ==
    /\ DOMAIN reply = {"json", "status", "message", "command_connected", "feedback_connected"}
    /\ reply.status \in {"starting", "healthy", "degraded", "unhealthy"}
    /\ reply.status = StatusStrings[h.status]
    /\ reply.command_connected = h.command_connected
    /\ reply.feedback_connected = h.feedback_connected

Waiting == main_pc \in {"wait_test", "probe_command", "probe_feedback", "wait_sleep"}

\* the services that wait for the engine
EngineServices == {"plugin_manager", "command_service", "feedback_reader"}
NoneStarted == \A i \in DOMAIN started : started[i] \notin EngineServices

\* the health log shows both ports found reachable
FoundReachable == \E i \in DOMAIN health_log : health_log[i].to = "Healthy"

\* the order of the starts: the health monitor first and before the wait, the
\* others only after both ports were found reachable
StartupOrder ==
    /\ Waiting => (started = <<"health_monitor">> /\ hm_running_)
    /\ ~NoneStarted => (started[1] = "health_monitor" /\ FoundReachable)
    /\ initialized_ => FoundReachable

\* C29: the health dispatcher is started before the wait for the engine; the
\* registry, the feedback reader and the command dispatcher are started only
\* after both ports were found reachable; if shutdown is requested during the
\* wait none of them is ever started and the process exits with code 1.
\* (The engine services are started on the one path that leaves the wait by
\* its `return true`, so `never started` is: the wait does not return true.)
C29_StartupOrdering ==
    [][/\ StartupOrder'
       /\ (Waiting /\ shutdown_requested) => (Waiting' \/ main_pc' = "stop_health_fail")
       /\ (main_pc' = "exited" /\ NoneStarted') => exit_code' = 1]_vars

\* C29 without the signal that arrives during a probe: when wait_for_modhost
\* sees the request at its loop test, nothing more is started and main
\* returns 1
C29_OrderWhenWaitSeesRequest ==
    /\ StartupOrder
    /\ main_pc \in {"stop_health_fail", "join_health_fail"} => NoneStarted
    /\ (main_pc = "exited" /\ NoneStarted) => exit_code = 1

\* C30: once stop() has set the flag of a task (feedback reader, command
\* service, health monitor) the task ends and the join of stop() returns,
\* whatever the task was doing.
C30_StopLeadsToJoin ==
    /\ (main_pc = "join_reader") ~> (rpc = "joined")
    /\ (main_pc = "join_command") ~> (cs_pc = "joined")
    /\ (main_pc \in {"join_health", "join_health_fail"}) ~> (hm_pc = "joined")

\* C30 for the runs in which the reader's send through its null socket
\* reference does not end the process
C30_StopLeadsToJoinOrFault ==
    /\ (main_pc = "join_reader") ~> (rpc = "joined" \/ crashed)
    /\ (main_pc = "join_command") ~> (cs_pc = "joined" \/ crashed)
    /\ (main_pc \in {"join_health", "join_health_fail"}) ~> (hm_pc = "joined" \/ crashed)

-----------------------------------------------------------------------------
(* The registry's mutex_ and the publish socket, by thread: the main thread   *)
(* in initialize(), the command service thread in process_command with a     *)
(* rescan_plugins request, and the reader thread sending a feedback event.   *)
(* in_call[t] is "none", "load" (inside load_available_plugins), "rescan"    *)
(* (inside rescan_plugins, up to the assignment of the catalog), "publish"   *)
(* (inside a send on the publish socket), "unlock" (about to leave           *)
(* process_command) or, for main, "serving" (the services are started).      *)
(* "monitor" is the caller of PluginBundleMonitor::checkForChanges, whose     *)
(* callback runs rescan_plugins.                                             *)

MaxLockEvents == 2   \* events on the bus over a run of SpecLock

lockFrame == <<healthVars, concVars, bundleVars, reader_socket, wire, rep, instances_,
               next_instance, sent, recorded, scanner_calls, running_, tcp_socket_, rpc,
               current_delay, line_buffer, slept, connects, received, parserVars, lifeVars>>

\* initialize() enters load_available_plugins; mutex_ is not taken
LoadBegin ==
    /\ ~crashed
    /\ ~initialized_
    /\ in_call["main"] = "none"
    /\ in_call' = [in_call EXCEPT !["main"] = "load"]
    /\ UNCHANGED <<mutex_, initialized_, available_plugins_, bus, last, crashed>>
    /\ UNCHANGED lockFrame

\* load_available_plugins assigns the catalog, initialize() sets
\* initialized_, and main starts the command service and the reader
LoadEnd(scan, missing) ==
    /\ ~crashed
    /\ in_call["main"] = "load"
    /\ available_plugins_' = ScanCatalog(scan, missing)
    /\ initialized_' = TRUE
    /\ in_call' = [in_call EXCEPT !["main"] = "serving"]
    /\ UNCHANGED <<mutex_, bus, last, crashed>>
    /\ UNCHANGED lockFrame

\* process_command: lock_guard lock(mutex_), then the dispatch to
\* process_rescan_plugins and into rescan_plugins
CommandLock ==
    /\ ~crashed
    /\ in_call["main"] = "serving"
    /\ in_call["command"] = "none"
    /\ mutex_ = "free"
    /\ Len(bus) < MaxLockEvents
    /\ mutex_' = "command"
    /\ in_call' = [in_call EXCEPT !["command"] = "rescan"]
    /\ UNCHANGED <<initialized_, available_plugins_, bus, last, crashed>>
    /\ UNCHANGED lockFrame

\* the outcomes of an access of thread t to the catalog: it is a data race,
\* and the behaviour undefined, when another thread is inside an access
AccessFaults(t) ==
    IF \E u \in Callers \ {t} : in_call[u] \in {"load", "rescan"} THEN BOOLEAN ELSE {FALSE}

\* rescan_plugins up to publish_event: the catalog is assigned, and the
\* function enters the send of plugins_rescanned, unless the scan threw
CommandRescan(scan, missing, threw) ==
    /\ ~crashed
    /\ in_call["command"] = "rescan"
    /\ LET r == RescanPlugins(available_plugins_, <<>>, initialized_, scan, missing, threw) IN
         /\ available_plugins_' = r.catalog
         /\ in_call' = [in_call EXCEPT !["command"] = IF r.bus = <<>> THEN "unlock" ELSE "publish"]
         /\ last' = [op |-> "rescan_plugins", status |-> "ok", error |-> "",
                     pending |-> r.bus, send |-> "none"]
    /\ crashed' \in AccessFaults("command")
    /\ UNCHANGED <<mutex_, initialized_, bus>>
    /\ UNCHANGED lockFrame

\* the callback of the bundle monitor enters rescan_plugins; mutex_ is not
\* taken
MonitorRescanBegin ==
    /\ ~crashed
    /\ in_call["main"] = "serving"
    /\ in_call["monitor"] = "none"
    /\ Len(bus) < MaxLockEvents
    /\ in_call' = [in_call EXCEPT !["monitor"] = "rescan"]
    /\ UNCHANGED <<mutex_, initialized_, available_plugins_, bus, last, crashed>>
    /\ UNCHANGED lockFrame

\* rescan_plugins, called by the callback, up to publish_event
MonitorRescan(scan, missing, threw) ==
    /\ ~crashed
    /\ in_call["monitor"] = "rescan"
    /\ LET r == RescanPlugins(available_plugins_, <<>>, initialized_, scan, missing, threw) IN
         /\ available_plugins_' = r.catalog
         /\ in_call' = [in_call EXCEPT !["monitor"] = IF r.bus = <<>> THEN "none" ELSE "publish"]
    /\ crashed' \in AccessFaults("monitor")
    /\ UNCHANGED <<mutex_, initialized_, bus, last>>
    /\ UNCHANGED lockFrame

\* publish_event of the callback's rescan_plugins
MonitorPublish(o) ==
    /\ ~crashed
    /\ in_call["monitor"] = "publish"
    /\ bus' = IF o = "sent"
              THEN Append(bus, [type |-> "plugins_rescanned",
                                plugin_count |-> Cardinality(available_plugins_)])
              ELSE bus
    /\ in_call' = [in_call EXCEPT !["monitor"] = "none"]
    /\ UNCHANGED <<mutex_, initialized_, available_plugins_, last, crashed>>
    /\ UNCHANGED lockFrame

\* publish_event: pub_socket_->send returns, or throws and the catch clause
\* logs the error
CommandPublish(o) ==
    /\ ~crashed
    /\ in_call["command"] = "publish"
    /\ bus' = IF o = "sent" THEN bus \o last.pending ELSE bus
    /\ last' = [last EXCEPT !.send = o]
    /\ in_call' = [in_call EXCEPT !["command"] = "unlock"]
    /\ UNCHANGED <<mutex_, initialized_, available_plugins_, crashed>>
    /\ UNCHANGED lockFrame

\* process_command returns the response of process_rescan_plugins; the
\* lock_guard releases mutex_
CommandUnlock ==
    /\ ~crashed
    /\ in_call["command"] = "unlock"
    /\ mutex_' = "free"
    /\ in_call' = [in_call EXCEPT !["command"] = "none"]
    /\ last' = [op |-> "process_command", status |-> "ok", error |-> "",
                pending |-> <<>>, send |-> last.send]
    /\ UNCHANGED <<initialized_, available_plugins_, bus, crashed>>
    /\ UNCHANGED lockFrame

\* reader_loop enters pub_socket_.send for a record; the reader has no
\* access to mutex_
ReaderSendBegin ==
    /\ ~crashed
    /\ in_call["main"] = "serving"
    /\ in_call["reader"] = "none"
    /\ Len(bus) < MaxLockEvents
    /\ in_call' = [in_call EXCEPT !["reader"] = "publish"]
    /\ UNCHANGED <<mutex_, initialized_, available_plugins_, bus, last, crashed>>
    /\ UNCHANGED lockFrame

\* the send of reader_loop is over
ReaderSendEnd(o) ==
    /\ ~crashed
    /\ in_call["reader"] = "publish"
    /\ LET st == Publish([bus |-> bus, crashed |-> FALSE],
                         FeedbackToJson(UnknownFeedback(<<"a">>)), o) IN
         /\ bus' = st.bus
         /\ crashed' = st.crashed
    /\ in_call' = [in_call EXCEPT !["reader"] = "none"]
    /\ UNCHANGED <<mutex_, initialized_, available_plugins_, last>>
    /\ UNCHANGED lockFrame

NextLock ==
    \/ LoadBegin
    \/ \E scan \in Scans, missing \in NoInfo : LoadEnd(scan, missing)
    \/ CommandLock
    \/ \E scan \in Scans, missing \in NoInfo, threw \in BOOLEAN :
          CommandRescan(scan, missing, threw)
    \/ \E o \in {"sent", "failed"} : CommandPublish(o)
    \/ CommandUnlock
    \/ ReaderSendBegin
    \/ \E o \in PublishOutcomes : ReaderSendEnd(o)
    \/ MonitorRescanBegin
    \/ \E scan \in Scans, missing \in NoInfo, threw \in BOOLEAN :
          MonitorRescan(scan, missing, threw)
    \/ \E o \in {"sent", "failed"} : MonitorPublish(o)

\* SpecLock: from main's initialize() on, the command thread serving rescan
\* requests while the reader publishes feedback and the bundle monitor's
\* callback rescans
SpecLock == InitMain /\ [][NextLock]_vars

\* SpecReply: the two dispatcher loops on their REP sockets, the receive and
\* each send a step of its own, with sends that throw. One request for each
\* path of service_loop: text that does not parse, a legacy command (the
\* engine answering it or not), an object of neither form, a plugin command
\* that fails and one that succeeds.
ReplyRequests ==
    {NotJson,
     RequestObject({"command"}, "", "", <<"cpu_load">>, <<>>, <<>>),
     RequestObject({}, "", "", <<>>, <<>>, <<>>),
     RequestObject({"action", "method"}, "plugin", "bogus", <<>>, <<>>, <<>>),
     RequestObject({"action", "method"}, "plugin", "list_instances", <<>>, <<>>, <<>>)}
ReplyOutcomes == {RespZero, Nullopt("no_reply")}

NextReply ==
    \/ CsStart
    \/ CsLoopTest
    \/ CsRecvTimeout
    \/ \E request \in ReplyRequests, o \in ReplyOutcomes : CsReceive(request, o)
    \/ \E throws \in BOOLEAN : CsSendReply(throws)
    \/ \E throws \in BOOLEAN : CsSendError(throws)
    \/ CsStop
    \/ CsJoin
    \/ HmStart
    \/ HmLoopTest
    \/ HmRecvTimeout
    \/ \E request \in HealthBodies : HmReceive(request)
    \/ \E throws \in BOOLEAN : HmSendReply(throws)
    \/ \E throws \in BOOLEAN : HmSendError(throws)
    \/ HmStop
    \/ HmJoin

SpecReply == Init /\ [][NextReply]_vars

\* SpecStream: the reader on connections over which the engine writes every
\* byte stream, read in every split; a connection can drop at any recv
MaxRecv == 2         \* bytes returned by one recv in SpecStream

NextStream ==
    \/ ReaderStart
    \/ ReaderLoopTest
    \/ ReaderConnect(TRUE)
    \/ \E stream \in Streams : EngineWrite(stream)
    \/ last.op = "engine_write" /\ last.conn = connects /\ ReaderMarkConnected
    \/ ReaderInnerTest
    \/ ReaderRecvTimeout
    \/ \E n \in 1..MaxRecv, g \in MainIndeterminate :
          \E outs \in [1..n -> PublishOutcomes] : ReaderRecvWire(n, outs, g)
    \/ ReaderRecvEnd
    \/ ReaderMarkDisconnected
    \/ ReaderClose
    \/ connects < MaxConnects /\ ReaderBackoff

SpecStream == Init /\ [][NextStream]_vars

-----------------------------------------------------------------------------
\* a step of checkForChanges
PollStep == last'.op = "check_for_changes" /\ last'.polls = last.polls + 1

\* C39: a poll made when nothing in the monitored directory has changed since
\* the previous poll (or since startMonitoring) does not invoke the rescan
\* callback, also when the directory holds subdirectories without a
\* manifest.ttl; a poll that detects a change invokes it exactly once.
C39_QuietPollNoCallback ==
    [][PollStep =>
         /\ (fs = last.seen) => last'.callbacks = 0
         /\ last'.has_changes => last'.callbacks = 1]_vars

\* every subdirectory of the monitored directory holds a manifest.ttl
EveryDirIsBundle == \A d \in BundleDirs : fs[d].dir => HasManifest(fs[d])

\* C39, where it holds: a poll of an unchanged directory in which every
\* subdirectory is a bundle invokes nothing, and a poll that detects a change
\* invokes the callback once.
C39_QuietPollOfBundles ==
    [][PollStep =>
         /\ (fs = last.seen /\ EveryDirIsBundle) => last'.callbacks = 0
         /\ last'.has_changes => last'.callbacks = 1]_vars

\* the bridge is up and no shutdown was requested
Serving == main_pc = "serve" /\ ~shutdown_requested /\ ~crashed

\* the monitored directory differs from what the monitor recorded
BundleChanged == HasChanges(bundle_states_, fs)

Rescanned == \E i \in DOMAIN bus : bus[i].type = "plugins_rescanned"

\* C31: while the bridge is running, a change to a monitored bundle directory
\* (bundle added, removed, manifest modified) is eventually followed by a
\* rescan of the catalog and a plugins_rescanned event.
C31_ChangeLeadsToRescan == (Serving /\ BundleChanged) ~> (Rescanned \/ ~Serving)

\* a step of process_rescan_plugins
RescanStep == last'.op = "rescan_plugins" /\ (last' # last \/ bus' # bus)

RescannedEvent(count) == [type |-> "plugins_rescanned", plugin_count |-> count]

\* C35: every completed rescan_plugins publishes exactly one plugins_rescanned
\* event whose plugin_count is the size of the catalog after the rescan (a
\* rescan the scanner made fail publishes none), and the initial catalog load
\* publishes no event.
C35_OneEventPerRescan ==
    /\ bus = <<>>
    /\ [][RescanStep =>
             bus' = IF last'.threw THEN bus
                    ELSE Append(bus, RescannedEvent(Cardinality(available_plugins_')))]_vars

C35_Witness ==
    /\ last.op = "rescan_plugins"
    /\ ~last.threw
    /\ Len(bus) = 2
    /\ bus[2] = RescannedEvent(3)
    /\ Cardinality(last.scan) > 3

\* C40: rescan_plugins leaves the instances map as it is, also when the URI
\* of a live instance is not in the new catalog; a rescan in which the
\* scanner throws keeps the previous catalog, a completed one installs the
\* validated scan.
C40_RescanKeepsInstances ==
    [][RescanStep =>
         /\ instances_' = instances_
         /\ available_plugins_' =
               IF last'.threw THEN available_plugins_
               ELSE {uri \in last'.scan \ last'.missing : PassesPolicy(uri)}]_vars

C40_Witness ==
    /\ last.op = "rescan_plugins"
    /\ \E id \in DOMAIN instances_ : instances_[id].uri \notin available_plugins_
    /\ available_plugins_ # {}

\* C36: the feedback reader is constructed with, and only sends on, a publish
\* socket the registry had already created when the reader took its handle:
\* once the reader is constructed its reference designates the socket, and no
\* record is sent through a handle taken before initialize() made the socket.
C36_ReaderHoldsLiveSocket ==
    /\ reader_socket \in {"unbound", "socket"}
    /\ received # <<>> => reader_socket = "socket"

-----------------------------------------------------------------------------
\* The byte stream of a connection, as the wire protocol defines it: the
\* records are the maximal runs of bytes other than NUL that a NUL follows.
NulAt(bytes) == {i \in 1..Len(bytes) : bytes[i] = NUL}
RecordStart(bytes, i) ==
    LET before == {j \in NulAt(bytes) : j < i} IN
    IF before = {} THEN 1 ELSE 1 + CHOOSE j \in before : \A k \in before : k <= j
RecordEnds(bytes) == {i \in NulAt(bytes) : RecordStart(bytes, i) < i}

RECURSIVE RecordsEndingAt(_, _)
RecordsEndingAt(bytes, ends) ==
    IF ends = {} THEN <<>>
    ELSE LET i == CHOOSE e \in ends : \A k \in ends : e <= k IN
         <<SubSeq(bytes, RecordStart(bytes, i), i - 1)>>
             \o RecordsEndingAt(bytes, ends \ {i})

\* the non-empty NUL-terminated records of a byte stream, in wire order
Records(bytes) == RecordsEndingAt(bytes, RecordEnds(bytes))
\* the bytes after the last NUL of a byte stream
PartialRecord(bytes) == SubSeq(bytes, RecordStart(bytes, Len(bytes) + 1), Len(bytes))

\* the engine has written the stream of the reader's current connection
OnConnection == last.op = "engine_write" /\ last.conn = connects
\* the bytes of it the reader has read so far
Consumed == SubSeq(last.stream, 1, Len(last.stream) - Len(wire))
TakenLines(recs) == [i \in 1..Len(recs) |-> recs[i].line]
EventOfRecord(line) ==
    FeedbackToJson(ParseFeedbackLine(line, [u32 |-> 0, f64 |-> 0, bool |-> FALSE]))
EventsOfRecords(lines) == [i \in 1..Len(lines) |-> EventOfRecord(lines[i])]

\* C34: within one connection the events the reader has published are, in
\* wire order and one for one, the non-empty NUL-terminated records of the
\* bytes read so far, however recv split them; empty records give no event.
C34_EventsAreWireRecords ==
    OnConnection => bus = last.bus_before \o EventsOfRecords(Records(Consumed))

\* C34, the framing alone: as long as every send of the connection went
\* through, the events are the records of the bytes read, whatever the split.
C34_FramingWhenSendsSucceed ==
    (/\ OnConnection
     /\ \A i \in 1..Len(received) : received[i].send = "sent")
        => bus = last.bus_before \o EventsOfRecords(Records(Consumed))

\* a record that came in two reads was reassembled and published
C34_Reassembled ==
    /\ OnConnection
    /\ last.stream = <<"a", "a", NUL>>
    /\ wire = <<>>
    /\ bus = last.bus_before \o <<EventOfRecord(<<"a", "a">>)>>

\* recv returned EWOULDBLOCK / EAGAIN
TimeoutStep == rpc = "in_recv" /\ rpc' = "recv" /\ wire' = wire

\* C38: the records taken on a connection are the records of the bytes read
\* on that connection alone, and the pending partial record is the tail of
\* those bytes: a partial record left over when the connection before dropped
\* is neither taken as a record nor prepended to the first record of this
\* connection. A receive timeout keeps the partial record, the socket and
\* feedback_connected as they are.
C38_PartialWithinConnection ==
    (OnConnection /\ ~crashed) =>
        /\ TakenLines(received) = TakenLines(last.before) \o Records(Consumed)
        /\ rpc \in {"recv", "in_recv"} => line_buffer = PartialRecord(Consumed)

C38_PartialDroppedTimeoutKept ==
    /\ []C38_PartialWithinConnection
    /\ [][TimeoutStep => /\ line_buffer' = line_buffer
                          /\ tcp_socket_' = tcp_socket_
                          /\ health_state'.feedback_connected = health_state.feedback_connected
                          /\ received' = received]_vars

\* the second connection: the first left a partial record behind, and on
\* this one a record was taken and a new partial record is pending
C38_Witness ==
    /\ OnConnection
    /\ ~crashed
    /\ connects = 2
    /\ last.dropped # <<>>
    /\ Len(received) > Len(last.before)
    /\ rpc = "recv"
    /\ line_buffer # <<>>

-----------------------------------------------------------------------------
\* the messages of a REP socket alternate, a request first
Alternates(log) ==
    \A i \in 1..Len(log) : log[i] = (IF i % 2 = 1 THEN "recv" ELSE "send")
\* the loop is outside the part of its body that replies
AtLoopTop(p) == p \notin {"send", "catch"}

ReplyDiscipline(r, p) ==
    /\ Alternates(r.log)
    /\ r.owed = (Len(r.log) % 2 = 1)
    /\ (r.owed /\ AtLoopTop(p)) => \E i \in 1..Len(r.failed) : r.failed[i] = "catch"

\* C37: on both REP sockets requests and replies alternate: no second receive
\* without a send in between, no second reply to one request; and a loop is
\* back at its top with a reply still owed only if the send of its catch
\* clause threw, so every path on which the sends go through has replied
\* exactly once.
C37_RequestReplyAlternation ==
    /\ ReplyDiscipline(rep["rep_socket_"], cs_pc)
    /\ ReplyDiscipline(rep["health_socket_"], hm_pc)

\* two requests answered on the command socket, the second with the error of
\* the catch clause after the send of the try block threw; one request
\* answered on the health socket
C37_Witness ==
    /\ Len(rep["rep_socket_"].log) = MaxExchanges + MaxExchanges
    /\ rep["rep_socket_"].failed = <<"try">>
    /\ ~rep["rep_socket_"].owed
    /\ Len(rep["health_socket_"].log) >= MaxExchanges
    /\ cs_pc = "loop"

-----------------------------------------------------------------------------
\* the threads inside an access to the catalog or the instances map
Accessing == {t \in Callers : in_call[t] \in {"load", "rescan"}}
\* the threads inside a send on the publish socket
Sending == {t \in Callers : in_call[t] = "publish"}

\* C32: every access to the catalog or the instances map is made with
\* mutex_ held by the thread that makes it.
C32_AccessUnderMutex == \A t \in Accessing : mutex_ = t

\* C32, the consequence: no two threads are inside an access at once
C32_OneAccessAtATime == Cardinality(Accessing) <= 1

\* C33: the reader and a registry operation are never inside a send on the
\* publish socket at the same time.
C33_SendsExclusive == Cardinality(Sending) <= 1

\* C33, the second half: when the send of publish_event fails, rescan_plugins
\* keeps the catalog it assigned and process_command returns its response
C33_FailedSendKeepsOperation ==
    [][(in_call["command"] = "publish" /\ in_call'["command"] = "unlock" /\ last'.send = "failed")
          => /\ available_plugins_' = available_plugins_
             /\ bus' = bus
             /\ last'.status = "ok"
             /\ ~crashed']_vars

====
